---------------------------- MODULE Spec2Model ----------------------------
(***************************************************************************)
(* Model of the Confluence storage-format engine of cert-journal           *)
(* (src/src/main/utils/storageFormat.ts, final revision, lines 1118-1729). *)
(*                                                                         *)
(* Text is a sequence of tokens.  A token is either one character ("a",    *)
(* "&", " ", ...) or one markup tag taken as a unit ("<tr>", "</tbody>",   *)
(* ...).  Offsets are 0-based token offsets, as String offsets are in the  *)
(* source; Slice(s, i, j) is s.slice(i, j).                                *)
(***************************************************************************)
EXTENDS Integers, Sequences, FiniteSets, TLC

VARIABLES
    text,        \* escapeXml: the input text
    escaped,     \* escapeXml(text)
    unescaped,   \* unescapeXml(escaped)
    row,         \* row codec: the TableRow being encoded
    steps,       \* number of pieces the current input was put together from
    rowHtml,     \* row codec: the row fragment (buildTableRow(row) or a hand-built fragment)
    cells,       \* row codec: contents of the <td> cells put into rowHtml by hand, in order
    parsedRow,   \* row codec: parseTableRow(rowHtml)
    caText,      \* classifier: the issuing CA text
    bucket,      \* classifier: getMarkerSectionForCA(caText)
    calls,       \* classifier: the calls made so far, each with its argument and result
    rows,        \* sorter: the input list
    sortedRows,  \* sorter: sortRowsByDate(rows)
    dates,       \* sorter: parseFlexibleDate of each input row's expiration
    engine,      \* sorter: how the runtime's Date constructor treats non-ISO text
    tzOffset,    \* sorter: hours the local time zone is ahead of UTC
    doc,         \* merge: the page body
    prevDoc,     \* merge: the page body handed to the last merge call
    batch,       \* merge: the rows handed to the last merge call
    lastOp,      \* merge: "edit" (page edited outside the tool), "merge" or "append"
    found,       \* locator: the sections found in the page when it was last looked at
    caSections,  \* section parser: parseCASection(doc)
    store,       \* Confluence: the page as stored, with its version number
    tx,          \* append handler: the submissions, each with its position in the handler
    history,     \* database: the submission_history table
    storageMethod,    \* credential store: "unknown" until keytar was loaded or failed to load
    keychain,         \* credential store: the password kept in the OS keychain
    fallback,         \* credential store: the setting _encrypted_credentials
    credLog,          \* credential store: the last two calls with their results
    settings,         \* settings table: the connection settings
    cachedClient,     \* getClient: the cached ConfluenceClient
    cachedConfigHash, \* getClient: the hash the cached client was built under
    request,          \* getClient: the last request, its client and the credentials stored then
    templates,        \* database: the templates table
    lastInsertRowid,  \* database: the last id the templates table gave out
    tplCall           \* database: the last template call with its result

vars == <<steps, text, escaped, unescaped, row, rowHtml, cells, parsedRow,
          caText, bucket, calls, rows, sortedRows, dates, engine, tzOffset,
          doc, prevDoc, batch, lastOp, found, caSections,
          store, tx, history,
          storageMethod, keychain, fallback, credLog,
          settings, cachedClient, cachedConfigHash, request,
          templates, lastInsertRowid, tplCall>>

escapeVars  == <<text, escaped, unescaped>>
codecVars   == <<row, rowHtml, cells, parsedRow>>
classVars   == <<caText, bucket, calls>>
sortVars    == <<rows, sortedRows, dates, engine, tzOffset>>
mergeVars   == <<doc, prevDoc, batch, lastOp>>
locatorVars == <<found, caSections>>
submitVars  == <<store, tx, history>>
credVars    == <<storageMethod, keychain, fallback, credLog>>
clientVars  == <<settings, cachedClient, cachedConfigHash, request>>
templateVars == <<templates, lastInsertRowid, tplCall>>
serviceVars == <<submitVars, credVars, clientVars, templateVars>>
engineVars  == <<escapeVars, codecVars, classVars, sortVars, mergeVars, locatorVars>>

\* the null a parser returns for "no value"
Null == [isNull |-> TRUE]

-----------------------------------------------------------------------------
(* Bounds of the model *)

MaxChunks == 3     \* chunks per escaped text
MaxEdits  == 2     \* fields set on a row before it is encoded
MaxCells  == 9     \* pieces of a hand-built row fragment
MaxWords  == 3     \* chunks per issuing CA text
MaxRows   == 3     \* rows handed to the sorter
MaxPieces == 3     \* pieces of a page body
MaxBatch  == 2     \* rows per merge call
MaxSeeds  == 2     \* pieces of a page as first set up
MaxCalls  == 2     \* calls of the classifier that are recorded
MaxParts  == 5     \* parts of a page handed to the section parser

-----------------------------------------------------------------------------
(* String primitives of the runtime *)

\* s.slice(i, j), 0-based, j exclusive
Slice(s, i, j) == SubSeq(s, i + 1, j)

\* s.slice(i)
SliceFrom(s, i) == SubSeq(s, i + 1, Len(s))

\* s.startsWith(pat, i)
StartsWithAt(s, pat, i) ==
    /\ i + Len(pat) <= Len(s)
    /\ Slice(s, i, i + Len(pat)) = pat

\* the least and the greatest member of a set of offsets; -1 for the empty set
MinOrNone(offsets) ==
    IF offsets = {} THEN -1 ELSE CHOOSE i \in offsets : \A j \in offsets : i <= j

MaxOrNone(offsets) ==
    IF offsets = {} THEN -1 ELSE CHOOSE i \in offsets : \A j \in offsets : i >= j

\* s.indexOf(pat, from); -1 when absent
IndexOfFrom(s, pat, from) ==
    MinOrNone({i \in from..(Len(s) - Len(pat)) : StartsWithAt(s, pat, i)})

\* s.indexOf(pat)
IndexOf(s, pat) == IndexOfFrom(s, pat, 0)

\* s.includes(pat)
Includes(s, pat) == \E i \in 0..(Len(s) - Len(pat)) : StartsWithAt(s, pat, i)

\* s.lastIndexOf(pat); -1 when absent
LastIndexOf(s, pat) ==
    MaxOrNone({i \in 0..(Len(s) - Len(pat)) : StartsWithAt(s, pat, i)})

\* s.replace(/pat/g, rep): every occurrence, left to right, not rescanning the replacement
ReplaceAll(s, pat, rep) ==
    LET RECURSIVE From(_)
        \* the result for the text from offset i on
        From(i) ==
            IF i + Len(pat) > Len(s) THEN SliceFrom(s, i)
            ELSE IF s[i + 1] = pat[1] /\ StartsWithAt(s, pat, i)
                 THEN rep \o From(i + Len(pat))
                 ELSE <<s[i + 1]>> \o From(i + 1)
    IN  From(0)

\* the characters \s matches
Whitespace == {" ", "\n"}

RECURSIVE TrimStart(_)
TrimStart(s) ==
    IF s # <<>> /\ Head(s) \in Whitespace THEN TrimStart(Tail(s)) ELSE s

RECURSIVE TrimEnd(_)
TrimEnd(s) ==
    IF s # <<>> /\ s[Len(s)] \in Whitespace THEN TrimEnd(SubSeq(s, 1, Len(s) - 1)) ELSE s

\* s.trim()
Trim(s) == TrimEnd(TrimStart(s))

\* parts.join(sep)
RECURSIVE Join(_, _)
Join(parts, sep) ==
    IF parts = <<>> THEN <<>>
    ELSE IF Len(parts) = 1 THEN parts[1]
    ELSE parts[1] \o sep \o Join(Tail(parts), sep)

\* const x = v; ...: v is evaluated once and Body reads the value
Bind(v, Body(_)) == CHOOSE r \in {Body(x) : x \in {v}} : TRUE

\* parts.map(f) for a sequence
Map(parts, F(_)) == [i \in 1..Len(parts) |-> F(parts[i])]

-----------------------------------------------------------------------------
(* escapeXml / unescapeXml *)

AMP  == <<"&", "a", "m", "p", ";">>
LT   == <<"&", "l", "t", ";">>
GT   == <<"&", "g", "t", ";">>
QUOT == <<"&", "q", "u", "o", "t", ";">>
APOS == <<"&", "a", "p", "o", "s", ";">>

Entities == {AMP, LT, GT, QUOT, APOS}

escapeXml(s) ==
    IF s = <<>> THEN <<>>
    ELSE ReplaceAll(ReplaceAll(ReplaceAll(ReplaceAll(ReplaceAll(s,
            <<"&">>, AMP), <<"<">>, LT), <<">">>, GT), <<"\"">>, QUOT), <<"'">>, APOS)

\* &amp; is decoded before the other four entities
unescapeXmlAmpFirst(s) ==
    IF s = <<>> THEN <<>>
    ELSE ReplaceAll(ReplaceAll(ReplaceAll(ReplaceAll(ReplaceAll(s,
            AMP, <<"&">>), LT, <<"<">>), GT, <<">">>), QUOT, <<"\"">>), APOS, <<"'">>)

unescapeXml(s) ==
    IF s = <<>> THEN <<>>
    ELSE ReplaceAll(ReplaceAll(ReplaceAll(ReplaceAll(ReplaceAll(s,
            LT, <<"<">>), GT, <<">">>), QUOT, <<"\"">>), APOS, <<"'">>), AMP, <<"&">>)

\* the pieces texts are put together from
EscapeChunks ==
    { <<"&">>, <<"<">>, <<">">>, <<"\"">>, <<"'">>, <<"a">>, <<" ">>,
      <<"l", "t", ";">>, <<"a", "m", "p", ";">>, LT, AMP }

EscapeIdle == text = <<>> /\ escaped = <<>> /\ unescaped = <<>>

\* a caller escapes a text one chunk longer and decodes the result
EscapeText ==
    /\ steps < MaxChunks
    /\ steps' = steps + 1
    /\ \E c \in EscapeChunks : text' = text \o c
    /\ escaped' = escapeXml(text')
    /\ unescaped' = unescapeXml(escaped')
    /\ UNCHANGED <<codecVars, classVars, sortVars, mergeVars, locatorVars, serviceVars>>

-----------------------------------------------------------------------------
(* Row codec: buildTableRow / parseTableRow *)

\* the opening tags of the eight cells buildTableRow writes, by column
TdOpen ==
    << "<td style=\"min-width: 90px;\">",
       "<td style=\"min-width: 200px; max-width: 300px; word-wrap: break-word;\">",
       "<td style=\"min-width: 250px; max-width: 350px; word-wrap: break-word;\">",
       "<td style=\"min-width: 150px; max-width: 200px; word-wrap: break-word;\">",
       "<td style=\"min-width: 120px; max-width: 180px; word-wrap: break-word;\">",
       "<td style=\"min-width: 120px; max-width: 180px; word-wrap: break-word;\">",
       "<td style=\"min-width: 150px; max-width: 200px; word-wrap: break-word;\">",
       "<td style=\"min-width: 200px; max-width: 300px; word-wrap: break-word;\">" >>

\* the tokens /<td[^>]*>/i matches
TdTokens == {TdOpen[i] : i \in 1..8} \cup {"<td>"}

\* the tokens /<li[^>]*>/i matches
LiTokens == {"<li>"}

\* index of the first token of s at or after from that is in toks; -1 when there is none
FindToken(s, toks, from) ==
    MinOrNone({i \in from..(Len(s) - 1) : s[i + 1] \in toks})

\* the captures of /<open[^>]*>([\s\S]*?)<\/close>/gi over s, scanning from offset from
RECURSIVE Captures(_, _, _, _)
Captures(s, opens, close, from) ==
    LET i == FindToken(s, opens, from)
        j == IF i = -1 THEN -1 ELSE FindToken(s, {close}, i + 1)
    IN  IF i = -1 \/ j = -1 THEN <<>>
        ELSE <<Slice(s, i + 1, j)>> \o Captures(s, opens, close, j + 1)

RowFields == {"expiration", "cn", "issuingCA", "requestor", "location", "distributionGroup", "notes"}

\* the common name is written without escaping
buildTableRowRawCn(r) ==
    LET li(san) == <<"<li>">> \o escapeXml(san) \o <<"</li>">>
        sansList == IF Len(r.sans) > 0
                    THEN <<"<ul>">> \o Join(Map(r.sans, li), <<>>) \o <<"</ul>">>
                    ELSE <<>>
        td(i, body) == <<TdOpen[i]>> \o body \o <<"</td>", "\n">>
    IN  <<"<tr>", "\n">>
        \o td(1, escapeXml(r.expiration)) \o td(2, r.cn) \o td(3, sansList)
        \o td(4, escapeXml(r.issuingCA)) \o td(5, escapeXml(r.requestor))
        \o td(6, escapeXml(r.location)) \o td(7, escapeXml(r.distributionGroup))
        \o td(8, escapeXml(r.notes))
        \o <<"</tr>">>

buildTableRow(r) ==
    LET li(san) == <<"<li>">> \o escapeXml(san) \o <<"</li>">>
        sansList == IF Len(r.sans) > 0
                    THEN <<"<ul>">> \o Join(Map(r.sans, li), <<>>) \o <<"</ul>">>
                    ELSE <<>>
        td(i, body) == <<TdOpen[i]>> \o body \o <<"</td>", "\n">>
    IN  <<"<tr>", "\n">>
        \o td(1, escapeXml(r.expiration)) \o td(2, escapeXml(r.cn)) \o td(3, sansList)
        \o td(4, escapeXml(r.issuingCA)) \o td(5, escapeXml(r.requestor))
        \o td(6, escapeXml(r.location)) \o td(7, escapeXml(r.distributionGroup))
        \o td(8, escapeXml(r.notes))
        \o <<"</tr>">>

\* the non-empty SANs of a SAN cell
RECURSIVE KeepNonEmpty(_)
KeepNonEmpty(items) ==
    IF items = <<>> THEN <<>>
    ELSE IF Head(items) # <<>> THEN <<Head(items)>> \o KeepNonEmpty(Tail(items))
    ELSE KeepNonEmpty(Tail(items))

\* seven cells are taken for a row
parseTableRowSeven(rowHtmlText) ==
    LET c == Captures(rowHtmlText, TdTokens, "</td>", 0)
        san(inner) == unescapeXml(Trim(inner))
    IN  IF Len(c) < 7 THEN Null
        ELSE [ expiration        |-> unescapeXml(Trim(c[1])),
               cn                |-> unescapeXml(Trim(c[2])),
               sans              |-> KeepNonEmpty(Map(Captures(c[3], LiTokens, "</li>", 0), san)),
               issuingCA         |-> unescapeXml(Trim(c[4])),
               requestor         |-> unescapeXml(Trim(c[5])),
               location          |-> unescapeXml(Trim(c[6])),
               distributionGroup |-> unescapeXml(Trim(c[7])),
               notes             |-> IF Len(c) < 8 THEN <<>> ELSE unescapeXml(Trim(c[8])) ]

parseTableRow(rowHtmlText) ==
    LET c == Captures(rowHtmlText, TdTokens, "</td>", 0)
        san(inner) == unescapeXml(Trim(inner))
    IN  IF Len(c) < 8 THEN Null
        ELSE [ expiration        |-> unescapeXml(Trim(c[1])),
               cn                |-> unescapeXml(Trim(c[2])),
               sans              |-> KeepNonEmpty(Map(Captures(c[3], LiTokens, "</li>", 0), san)),
               issuingCA         |-> unescapeXml(Trim(c[4])),
               requestor         |-> unescapeXml(Trim(c[5])),
               location          |-> unescapeXml(Trim(c[6])),
               distributionGroup |-> unescapeXml(Trim(c[7])),
               notes             |-> unescapeXml(Trim(c[8])) ]

\* a TableRow as the renderer hands it over (src/unnamed/part_000)
PlainRow ==
    [ expiration |-> <<"x">>, cn |-> <<"x">>, sans |-> <<>>, issuingCA |-> <<"x">>,
      requestor |-> <<"x">>, location |-> <<"x">>, distributionGroup |-> <<"x">>,
      notes |-> <<"x">> ]

\* values of a text field
FieldValues ==
    { <<>>, <<"a">>, <<"&", "<">>, <<">", "\"", "'">>, LT, <<" ", "a", "\n">> }

\* values of the SAN list
SansValues ==
    { <<>>, << <<"a">> >>, << <<"<">>, <<"a">> >>, << <<"a">>, <<"<">> >>,
      << LT, <<"&">> >>, << <<"a">>, <<" ">> >>, << <<>> >> }

CodecIdle == row = PlainRow /\ rowHtml = <<>> /\ cells = <<>> /\ parsedRow = Null

\* one text field of the row is set; the row is encoded and the fragment decoded
SetField ==
    /\ steps < MaxEdits
    /\ steps' = steps + 1
    /\ \E f \in RowFields, v \in FieldValues : row' = [row EXCEPT ![f] = v]
    /\ rowHtml' = buildTableRow(row')
    /\ parsedRow' = parseTableRow(rowHtml')
    /\ UNCHANGED <<cells, escapeVars, classVars, sortVars, mergeVars, locatorVars, serviceVars>>

\* the SAN list of the row is set; the row is encoded and the fragment decoded
SetSans ==
    /\ steps < MaxEdits
    /\ steps' = steps + 1
    /\ \E v \in SansValues : row' = [row EXCEPT !.sans = v]
    /\ rowHtml' = buildTableRow(row')
    /\ parsedRow' = parseTableRow(rowHtml')
    /\ UNCHANGED <<cells, escapeVars, classVars, sortVars, mergeVars, locatorVars, serviceVars>>

\* contents of a hand-written data cell
CellContents == { <<"x">>, <<"<ul>", "<li>", "s", "</li>", "</ul>">> }

\* a data cell is appended to a fragment and the fragment decoded
AddDataCell ==
    /\ steps < MaxCells
    /\ steps' = steps + 1
    /\ \E c \in CellContents :
         /\ rowHtml' = rowHtml \o <<"<td>">> \o c \o <<"</td>">>
         /\ cells' = Append(cells, c)
    /\ parsedRow' = parseTableRow(rowHtml')
    /\ UNCHANGED <<row, escapeVars, classVars, sortVars, mergeVars, locatorVars, serviceVars>>

\* a header cell is appended to a fragment and the fragment decoded
AddHeaderCell ==
    /\ steps < MaxCells
    /\ steps' = steps + 1
    /\ rowHtml' = rowHtml \o <<"<th>", "h", "</th>">>
    /\ parsedRow' = parseTableRow(rowHtml')
    /\ UNCHANGED <<row, cells, escapeVars, classVars, sortVars, mergeVars, locatorVars, serviceVars>>

-----------------------------------------------------------------------------
(* Category classifier: getMarkerSectionForCA *)

UpperCase == <<"A", "B", "C", "D", "E", "F", "G", "H", "I", "J", "K", "L", "M", "N", "O", "P", "Q", "R", "S", "T", "U", "V", "W", "X", "Y", "Z">>
LowerCase == <<"a", "b", "c", "d", "e", "f", "g", "h", "i", "j", "k", "l", "m", "n", "o", "p", "q", "r", "s", "t", "u", "v", "w", "x", "y", "z">>

\* one character of s.toLowerCase()
LowerChar(c) ==
    IF \E i \in 1..26 : UpperCase[i] = c
    THEN LowerCase[CHOOSE i \in 1..26 : UpperCase[i] = c]
    ELSE c

\* s.toLowerCase()
ToLowerCase(s) == [i \in 1..Len(s) |-> LowerChar(s[i])]

KwSectigo == <<"s", "e", "c", "t", "i", "g", "o">>
KwTivo == <<"t", "i", "v", "o">>
KwPkiTivoCom == <<"p", "k", "i", ".", "t", "i", "v", "o", ".", "c", "o", "m">>
KwDigicert == <<"d", "i", "g", "i", "c", "e", "r", "t">>
KwComodo == <<"c", "o", "m", "o", "d", "o">>
KwGodaddy == <<"g", "o", "d", "a", "d", "d", "y">>
KwLetsencrypt == <<"l", "e", "t", "s", "e", "n", "c", "r", "y", "p", "t">>
KwSdv == <<"s", "d", "v">>

\* the TiVo rule is tried before the Sectigo rule
getMarkerSectionForCATivoFirst(issuingCA) ==
    LET caLower == ToLowerCase(issuingCA)
    IN  IF Includes(caLower, KwTivo) \/ Includes(caLower, KwPkiTivoCom) THEN "PKI-TIVO-COM"
        ELSE IF Includes(caLower, KwSectigo) THEN "SECTIGO"
        ELSE IF \/ Includes(caLower, KwDigicert) \/ Includes(caLower, KwComodo)
                \/ Includes(caLower, KwGodaddy) \/ Includes(caLower, KwLetsencrypt)
             THEN "THIRD-PARTY"
        ELSE IF Includes(caLower, KwSdv) THEN "SDV"
        ELSE "LEGACY"

\* the answer depends on whether the page holds anything
getMarkerSectionForCAByPage(issuingCA) ==
    IF doc = <<>> THEN "LEGACY" ELSE getMarkerSectionForCATivoFirst(issuingCA)

getMarkerSectionForCA(issuingCA) ==
    LET caLower == ToLowerCase(issuingCA)
    IN  IF Includes(caLower, KwSectigo) THEN "SECTIGO"
        ELSE IF Includes(caLower, KwTivo) \/ Includes(caLower, KwPkiTivoCom) THEN "PKI-TIVO-COM"
        ELSE IF \/ Includes(caLower, KwDigicert) \/ Includes(caLower, KwComodo)
                \/ Includes(caLower, KwGodaddy) \/ Includes(caLower, KwLetsencrypt)
             THEN "THIRD-PARTY"
        ELSE IF Includes(caLower, KwSdv) THEN "SDV"
        ELSE "LEGACY"

\* the pieces issuing CA texts are put together from
CaSectigo == <<"S", "e", "c", "t", "i", "g", "o">>
CaSECTIGO == <<"S", "E", "C", "T", "I", "G", "O">>
CaSec == <<"s", "e", "c">>
CaTigo == <<"t", "i", "g", "o">>
CaTiVo == <<"T", "i", "V", "o">>
CaDigiCert == <<"D", "i", "g", "i", "C", "e", "r", "t">>
CaComodo == <<"c", "o", "m", "o", "d", "o">>
CaGoDaddy == <<"G", "o", "D", "a", "d", "d", "y">>
CaLetsencrypt == <<"l", "e", "t", "s", "e", "n", "c", "r", "y", "p", "t">>
CaLetsEncryptWords == <<"L", "e", "t", "'", "s", " ", "E", "n", "c", "r", "y", "p", "t">>
CaSDV == <<"S", "D", "V">>
CaSpace == <<" ">>
CaAcme == <<"A", "c", "m", "e">>
CaRsaTail == <<" ", "R", "S", "A", " ", "D", "o", "m", "a", "i", "n", " ", "V", "a", "l", "i", "d", "a", "t", "i", "o", "n", " ", "S", "e", "c", "u", "r", "e", " ", "S", "e", "r", "v", "e", "r", " ", "C", "A">>

CaChunks ==
    { CaSectigo, CaSECTIGO, CaSec, CaTigo, CaTiVo, CaDigiCert, CaComodo,
      CaGoDaddy, CaLetsencrypt, CaLetsEncryptWords, CaSDV, CaSpace, CaAcme, CaRsaTail }

ClassIdle == caText = <<>> /\ bucket = "" /\ calls = <<>>

\* an issuing CA text one chunk longer is classified
Classify ==
    /\ steps < MaxWords
    /\ steps' = steps + 1
    /\ \E c \in CaChunks : caText' = caText \o c
    /\ bucket' = getMarkerSectionForCA(caText')
    /\ UNCHANGED <<calls, escapeVars, codecVars, sortVars, mergeVars, locatorVars, serviceVars>>

\* issuing CA texts the classifier is called with again and again
CallPool == { CaSectigo, CaSectigo \o CaRsaTail, CaTiVo, CaAcme }

\* one call of the classifier, recorded with its argument, its result and what
\* happened to the page last
ClassifyCall ==
    /\ Len(calls) < MaxCalls
    /\ \E c \in CallPool :
         /\ caText' = c
         /\ bucket' = getMarkerSectionForCA(c)
         /\ calls' = Append(calls, [issuingCA |-> c, result |-> bucket', after |-> lastOp])
    /\ UNCHANGED <<steps, escapeVars, codecVars, sortVars, mergeVars, locatorVars, serviceVars>>

-----------------------------------------------------------------------------
(* Date normalizer: parseFlexibleDate, over the runtime's Date *)

Digits == <<"0", "1", "2", "3", "4", "5", "6", "7", "8", "9">>

IsDigit(c) == \E i \in 1..10 : Digits[i] = c

DigitValue(c) == (CHOOSE i \in 1..10 : Digits[i] = c) - 1

\* parseInt(s) of a run of digits
RECURSIVE ParseInt(_)
ParseInt(s) ==
    IF s = <<>> THEN 0
    ELSE 10 * ParseInt(SubSeq(s, 1, Len(s) - 1)) + DigitValue(s[Len(s)])

\* s.split(sep) for a one-character separator
RECURSIVE Split(_, _)
Split(s, sep) ==
    Bind(IndexOf(s, <<sep>>), LAMBDA i :
        IF i = -1 THEN <<s>>
        ELSE <<Slice(s, 0, i)>> \o Split(SliceFrom(s, i + 1), sep))

\* s.match(/^(\d{w1})sep(\d{w2})sep(\d{w3})$/): the three captures, or Null
MatchDate(s, sep, w1, w2, w3) ==
    LET run(part, widths) ==
            /\ Len(part) \in widths
            /\ \A i \in 1..Len(part) : IsDigit(part[i])
    IN  Bind(Split(s, sep), LAMBDA g :
            IF Len(g) = 3 /\ run(g[1], w1) /\ run(g[2], w2) /\ run(g[3], w3)
            THEN [g1 |-> ParseInt(g[1]), g2 |-> ParseInt(g[2]), g3 |-> ParseInt(g[3])]
            ELSE Null)

OneOrTwo == {1, 2}
Four == {4}

IsLeapYear(y) == ((y % 4) = 0 /\ (y % 100) # 0) \/ (y % 400) = 0

DaysInMonth(y, m) ==
    IF m = 2 THEN (IF IsLeapYear(y) THEN 29 ELSE 28)
    ELSE IF m \in {4, 6, 9, 11} THEN 30 ELSE 31

\* days from 1970-01-01 to the civil date y-m-d (m in 1..12)
DaysFromCivil(y, m, d) ==
    LET yy  == IF m <= 2 THEN y - 1 ELSE y
        era == yy \div 400
        yoe == yy - era * 400
        mp  == IF m > 2 THEN m - 3 ELSE m + 9
        doy == ((153 * mp + 2) \div 5) + d - 1
        doe == yoe * 365 + (yoe \div 4) - (yoe \div 100) + doy
    IN  era * 146097 + doe - 719468

\* MakeDay of the language: month index and day may lie outside their ranges
MakeDay(year, monthIndex, day) ==
    DaysFromCivil(year + (monthIndex \div 12), (monthIndex % 12) + 1, 1) + day - 1

\* a Date at midnight UTC of a day, as hours since the epoch
UtcDate(days) == [time |-> days * 24]

\* new Date(year, monthIndex, day): local midnight, years 0..99 taken as 1900..1999
LocalDate(year, monthIndex, day) ==
    [time |-> MakeDay(IF year <= 99 THEN 1900 + year ELSE year, monthIndex, day) * 24 - tzOffset]

\* the engines a build can run on: V8's legacy parser, or a parser that takes ISO 8601 only
Engines == {"legacy", "isoOnly"}
TimeZones == {-5, 0, 2}

\* new Date(s): an ISO date is UTC; other forms are left to the engine; Null is Invalid Date
NativeDate(s) ==
    LET dayOk(y, m, d) ==
            /\ m \in 1..12
            /\ d >= 1
            /\ d <= (IF engine = "legacy" THEN 31 ELSE DaysInMonth(y, m))
        \* the date of year y, month m, day d, read as UTC or as local time
        dateOf(y, m, d, utc) ==
            IF ~dayOk(y, m, d) THEN Null
            ELSE IF utc THEN UtcDate(MakeDay(y, m - 1, d))
            ELSE LocalDate(y, m - 1, d)
    IN  Bind(MatchDate(s, "-", Four, {2}, {2}), LAMBDA iso :
            IF iso # Null THEN dateOf(iso.g1, iso.g2, iso.g3, TRUE)
            ELSE IF engine # "legacy" THEN Null
            ELSE
        Bind(MatchDate(s, "/", OneOrTwo, OneOrTwo, Four), LAMBDA mdy :
            IF mdy # Null THEN dateOf(mdy.g3, mdy.g1, mdy.g2, FALSE)
            ELSE
        Bind(MatchDate(s, "-", OneOrTwo, OneOrTwo, Four), LAMBDA mdyD :
            IF mdyD # Null THEN dateOf(mdyD.g3, mdyD.g1, mdyD.g2, FALSE)
            ELSE
        Bind(MatchDate(s, "/", Four, OneOrTwo, OneOrTwo), LAMBDA ymd :
            IF ymd # Null THEN dateOf(ymd.g1, ymd.g2, ymd.g3, FALSE)
            ELSE Null))))

parseFlexibleDate(dateString) ==
    IF dateString = <<>> THEN Null
    ELSE
    Bind(Trim(dateString), LAMBDA trimmed :
    Bind(NativeDate(trimmed), LAMBDA native :
        IF native # Null THEN native
        ELSE
    \* MM/DD/YYYY
    Bind(MatchDate(trimmed, "/", OneOrTwo, OneOrTwo, Four), LAMBDA slash :
        IF slash # Null THEN LocalDate(slash.g3, slash.g1 - 1, slash.g2)
        ELSE
    \* DD-MM-YYYY
    Bind(MatchDate(trimmed, "-", OneOrTwo, OneOrTwo, Four), LAMBDA dash :
        IF dash # Null THEN LocalDate(dash.g3, dash.g2 - 1, dash.g1)
        \* DD/MM/YYYY, taken only when the day is above 12: the same pattern as MM/DD/YYYY
        ELSE IF slash # Null /\ slash.g1 > 12 THEN LocalDate(slash.g3, slash.g2 - 1, slash.g1)
        ELSE
    \* YYYY/MM/DD
    Bind(MatchDate(trimmed, "/", Four, OneOrTwo, OneOrTwo), LAMBDA ymd :
        IF ymd # Null THEN LocalDate(ymd.g1, ymd.g2 - 1, ymd.g3)
        ELSE Null)))))

-----------------------------------------------------------------------------
(* Sorter: sortRowsByDate *)

\* the comparator handed to Array.prototype.sort
CompareByDate(a, b) ==
    Bind(parseFlexibleDate(a.expiration), LAMBDA dateA :
    Bind(parseFlexibleDate(b.expiration), LAMBDA dateB :
        IF dateA = Null /\ dateB = Null THEN 0
        ELSE IF dateA = Null THEN 1
        ELSE IF dateB = Null THEN -1
        ELSE dateA.time - dateB.time))

\* the comparator without the two cases for one unparseable date
CompareByDateNoNullCase(a, b) ==
    Bind(parseFlexibleDate(a.expiration), LAMBDA dateA :
    Bind(parseFlexibleDate(b.expiration), LAMBDA dateB :
        IF dateA = Null \/ dateB = Null THEN 0
        ELSE dateA.time - dateB.time))

\* list.sort(Compare): stable; an element is inserted after every element that
\* does not compare greater than it
ArraySort(list, Compare(_, _)) ==
    LET RECURSIVE Insert(_, _)
        Insert(sorted, x) ==
            IF sorted # <<>> /\ Compare(sorted[Len(sorted)], x) > 0
            THEN Append(Insert(SubSeq(sorted, 1, Len(sorted) - 1), x), sorted[Len(sorted)])
            ELSE Append(sorted, x)
        RECURSIVE Sort(_)
        Sort(l) ==
            IF l = <<>> THEN <<>>
            ELSE Bind(Sort(SubSeq(l, 1, Len(l) - 1)), LAMBDA done : Insert(done, l[Len(l)]))
    IN  Bind(list, Sort)

\* a row with an unparseable date is not moved behind the parseable ones
sortRowsByDateNoNullCase(list) == ArraySort(list, CompareByDateNoNullCase)

sortRowsByDate(list) == ArraySort(list, CompareByDate)

\* the expiration texts rows are given
DateIso == <<"2", "0", "2", "6", "-", "0", "1", "-", "1", "0">>
DateIsoEarly == <<"2", "0", "2", "5", "-", "1", "2", "-", "2", "5">>
DateWord == <<"n", "o", "t", "-", "a", "-", "d", "a", "t", "e">>
DateEmpty == <<>>
DateEuSlash == <<"1", "3", "/", "0", "2", "/", "2", "0", "2", "6">>
DateUsSlash == <<"0", "2", "/", "1", "3", "/", "2", "0", "2", "6">>
DateEuDash == <<"2", "5", "-", "1", "2", "-", "2", "0", "2", "5">>
DateYearSlash == <<"2", "0", "2", "6", "/", "0", "1", "/", "0", "5">>
DatePadded == <<" ", "0", "1", "/", "1", "0", "/", "2", "0", "2", "6", " ">>

DatePool ==
    { DateIso, DateIsoEarly, DateWord, DateEmpty, DateEuSlash,
      DateUsSlash, DateEuDash, DateYearSlash, DatePadded }

SortIdle == rows = <<>> /\ sortedRows = <<>> /\ dates = <<>>

\* a row is added to the list (its cn is its position) and the list is sorted
SortRows ==
    /\ steps < MaxRows
    /\ steps' = steps + 1
    /\ \E e \in DatePool :
         rows' = Append(rows, [PlainRow EXCEPT !.expiration = e, !.cn = <<Digits[Len(rows) + 2]>>])
    /\ sortedRows' = sortRowsByDate(rows')
    /\ dates' = [i \in 1..Len(rows') |-> parseFlexibleDate(rows'[i].expiration)]
    /\ UNCHANGED <<engine, tzOffset, escapeVars, codecVars, classVars, mergeVars, locatorVars, serviceVars>>

-----------------------------------------------------------------------------
(* Section tables: buildCATable *)

TableOpen == "<table style=\"width: 100%; table-layout: auto;\">"

\* the tokens /<table/i matches
TableTokens == {TableOpen, "<table>"}

\* the header row every generated table starts with
HeaderRow ==
    << "<tr>", "\n",
       "<th style=\"min-width: 90px;\">", "Expiration", "</th>", "\n",
       "<th style=\"min-width: 200px; max-width: 300px;\">", "CN", "</th>", "\n",
       "<th style=\"min-width: 250px; max-width: 350px;\">", "SANs", "</th>", "\n",
       "<th style=\"min-width: 150px; max-width: 200px;\">", "Issuing CA", "</th>", "\n",
       "<th style=\"min-width: 120px; max-width: 180px;\">", "Requestor", "</th>", "\n",
       "<th style=\"min-width: 120px; max-width: 180px;\">", "Location", "</th>", "\n",
       "<th style=\"min-width: 150px; max-width: 200px;\">", "Distribution Group", "</th>", "\n",
       "<th style=\"min-width: 200px; max-width: 300px;\">", "Notes", "</th>", "\n",
       "</tr>" >>

HeadingOpen  == <<"<h1>", "<h2>", "<h3>", "<h4>", "<h5>", "<h6>">>
HeadingClose == <<"</h1>", "</h2>", "</h3>", "</h4>", "</h5>", "</h6>">>

buildCATable(caName, tableRows, headingLevel) ==
    LET rowsHtml == Bind(sortRowsByDate(tableRows),
                         LAMBDA sortedList : Join(Map(sortedList, buildTableRow), <<"\n">>))
    IN  <<HeadingOpen[headingLevel]>> \o escapeXml(caName) \o <<HeadingClose[headingLevel], "\n">>
        \o <<TableOpen, "\n", "<tbody>", "\n">>
        \o HeaderRow \o <<"\n">>
        \o rowsHtml \o <<"\n">>
        \o <<"</tbody>", "\n", "</table>">>

-----------------------------------------------------------------------------
(* Marker locator: findMarkerSections *)

MacroOpen  == "<ac:structured-macro ac:name=\"htmlcomment\">"
MacroClose == "</ac:structured-macro>"

\* the rich-text bodies of the marker macros, each one token:
\* <ac:rich-text-body><p>NAME-START</p></ac:rich-text-body> and the same with END
MarkerBodies ==
    { [token |-> "<ac:rich-text-body><p>SECTIGO-START</p></ac:rich-text-body>", name |-> "SECTIGO", kind |-> "START"],
      [token |-> "<ac:rich-text-body><p>SECTIGO-END</p></ac:rich-text-body>",   name |-> "SECTIGO", kind |-> "END"],
      [token |-> "<ac:rich-text-body><p>LEGACY-START</p></ac:rich-text-body>",  name |-> "LEGACY",  kind |-> "START"],
      [token |-> "<ac:rich-text-body><p>LEGACY-END</p></ac:rich-text-body>",    name |-> "LEGACY",  kind |-> "END"] }

BodyOf(name, kind) == (CHOOSE b \in MarkerBodies : b.name = name /\ b.kind = kind).token

IsBody(tok, kind) == \E b \in MarkerBodies : b.token = tok /\ b.kind = kind

NameOfBody(tok) == (CHOOSE b \in MarkerBodies : b.token = tok).name

\* offset just behind the \s*</ac:structured-macro> that follows offset i; -1 when
\* something else follows
RECURSIVE MacroCloseAfter(_, _)
MacroCloseAfter(s, i) ==
    IF i >= Len(s) THEN -1
    ELSE IF s[i + 1] = MacroClose THEN i + 1
    ELSE IF s[i + 1] \in Whitespace THEN MacroCloseAfter(s, i + 1)
    ELSE -1

\* the first offset at or after from of a marker body of this kind (and, for names # {},
\* of one of these names) that its macro's closing tag follows; -1 when there is none
FindBody(s, kind, names, from) ==
    MinOrNone({i \in from..(Len(s) - 1) :
                 /\ IsBody(s[i + 1], kind)
                 /\ names = {} \/ NameOfBody(s[i + 1]) \in names
                 /\ MacroCloseAfter(s, i + 1) # -1})

\* the leftmost match, at or after from, of
\*   <ac:structured-macro ac:name="htmlcomment"[^>]*>[\s\S]*?<body>NAME-kind</body>\s*</ac:structured-macro>
\* as [index, end, name], or Null: the match starts at the first macro tag and runs
\* to the first such body behind it
MatchMarker(s, kind, names, from) ==
    LET open == FindToken(s, {MacroOpen}, from)
        body == IF open = -1 THEN -1 ELSE FindBody(s, kind, names, open + 1)
    IN  IF open = -1 \/ body = -1 THEN Null
        ELSE [index |-> open, end |-> MacroCloseAfter(s, body + 1), name |-> NameOfBody(s[body + 1])]

\* the scan ends at the first start marker that has no end marker
findMarkerSectionsStopAtMissingEnd(content) ==
    LET RECURSIVE Scan(_)
        Scan(from) ==
            LET match == MatchMarker(content, "START", {}, from)
            IN  IF match = Null THEN <<>>
                ELSE LET endMatch == MatchMarker(content, "END", {match.name}, match.end)
                     IN  IF endMatch = Null THEN <<>>
                         ELSE << [ markerName        |-> match.name,
                                   startMarker       |-> Slice(content, match.index, match.end),
                                   endMarker         |-> Slice(content, endMatch.index, endMatch.end),
                                   startIndex        |-> match.index,
                                   endIndex          |-> endMatch.end,
                                   contentStartIndex |-> match.end,
                                   contentEndIndex   |-> endMatch.index ] >>
                              \o Scan(match.end)
    IN  Scan(0)

\* the offsets of the end marker are left as offsets in the text behind the start
\* marker
findMarkerSectionsRelativeEnd(content) ==
    LET RECURSIVE Scan(_)
        Scan(from) ==
            LET match == MatchMarker(content, "START", {}, from)
            IN  IF match = Null THEN <<>>
                ELSE LET endMatch == MatchMarker(content, "END", {match.name}, match.end)
                     IN  IF endMatch = Null THEN Scan(match.end)
                         ELSE << [ markerName        |-> match.name,
                                   startMarker       |-> Slice(content, match.index, match.end),
                                   endMarker         |-> Slice(content, endMatch.index, endMatch.end),
                                   startIndex        |-> match.index,
                                   endIndex          |-> endMatch.end - match.end,
                                   contentStartIndex |-> match.end,
                                   contentEndIndex   |-> endMatch.index - match.end ] >>
                              \o Scan(match.end)
    IN  Scan(0)

findMarkerSections(content) ==
    LET RECURSIVE Scan(_)
        Scan(from) ==
            LET match == MatchMarker(content, "START", {}, from)
            IN  IF match = Null THEN <<>>
                ELSE LET endMatch == MatchMarker(content, "END", {match.name}, match.end)
                     IN  IF endMatch = Null THEN Scan(match.end)
                         ELSE << [ markerName        |-> match.name,
                                   startMarker       |-> Slice(content, match.index, match.end),
                                   endMarker         |-> Slice(content, endMatch.index, endMatch.end),
                                   startIndex        |-> match.index,
                                   endIndex          |-> endMatch.end,
                                   contentStartIndex |-> match.end,
                                   contentEndIndex   |-> endMatch.index ] >>
                              \o Scan(match.end)
    IN  Scan(0)

-----------------------------------------------------------------------------
(* Merge: addRowsWithCAGrouping / addRowsWithoutMarkers *)

\* the characters of the issuing CA texts in code-unit order
CodeOrder == <<" ", "'", "-", ".", "0", "1", "2", "3", "4", "5", "6", "7", "8", "9", "A", "B", "C", "D", "E", "F", "G", "H", "I", "J", "K", "L", "M", "N", "O", "P", "Q", "R", "S", "T", "U", "V", "W", "X", "Y", "Z", "a", "b", "c", "d", "e", "f", "g", "h", "i", "j", "k", "l", "m", "n", "o", "p", "q", "r", "s", "t", "u", "v", "w", "x", "y", "z">>

CodeOf(c) == CHOOSE i \in 1..Len(CodeOrder) : CodeOrder[i] = c

\* a < b as the default Array.prototype.sort orders strings
RECURSIVE StringLess(_, _)
StringLess(a, b) ==
    IF b = <<>> THEN FALSE
    ELSE IF a = <<>> THEN TRUE
    ELSE IF Head(a) = Head(b) THEN StringLess(Tail(a), Tail(b))
    ELSE CodeOf(Head(a)) < CodeOf(Head(b))

\* the keys of a Map filled from the rows in order: each key once, in insertion order
KeysInOrder(list, Key(_)) ==
    LET RECURSIVE Keys(_, _)
        Keys(l, seen) ==
            IF l = <<>> THEN <<>>
            ELSE IF Key(Head(l)) \in seen THEN Keys(Tail(l), seen)
            ELSE <<Key(Head(l))>> \o Keys(Tail(l), seen \cup {Key(Head(l))})
    IN  Keys(list, {})

\* the rows a Map holds under key k, in insertion order
RowsOfKey(list, Key(_), k) == SelectSeq(list, LAMBDA r : Key(r) = k)

\* keys.sort()
SortKeys(keys) ==
    LET Compare(a, b) == IF StringLess(a, b) THEN -1 ELSE IF StringLess(b, a) THEN 1 ELSE 0
    IN  ArraySort(keys, Compare)

IssuingCAOf(r) == r.issuingCA

Separator == <<"\n", "\n">>

\* the existing content is kept untrimmed
addRowsWithoutMarkersNoTrim(existingContent, newRows) ==
    LET sortedCANames == SortKeys(KeysInOrder(newRows, IssuingCAOf))
        section(caName) == buildCATable(caName, RowsOfKey(newRows, IssuingCAOf, caName), 3)
        newCASections == Map(sortedCANames, section)
    IN  IF Trim(existingContent) # <<>>
        THEN existingContent \o Separator \o Join(newCASections, Separator)
        ELSE Join(newCASections, Separator)

addRowsWithoutMarkers(existingContent, newRows) ==
    LET sortedCANames == SortKeys(KeysInOrder(newRows, IssuingCAOf))
        section(caName) == buildCATable(caName, RowsOfKey(newRows, IssuingCAOf, caName), 3)
        newCASections == Map(sortedCANames, section)
    IN  IF Trim(existingContent) # <<>>
        THEN Trim(existingContent) \o Separator \o Join(newCASections, Separator)
        ELSE Join(newCASections, Separator)

\* content.match(/<table[\s\S]*?<\/table>/i): [index, end] of the match, or Null
MatchTable(content) ==
    LET open  == FindToken(content, TableTokens, 0)
        close == IF open = -1 THEN -1 ELSE FindToken(content, {"</table>"}, open + 1)
    IN  IF open = -1 \/ close = -1 THEN Null ELSE [index |-> open, end |-> close + 1]

MarkerNameOf(r) == getMarkerSectionForCA(r.issuingCA)

\* the insert position is taken within the section, not within the page
ProcessSectionRelativeInsert(st, markerSection, newRows) ==
    LET newRowsForSection == RowsOfKey(newRows, MarkerNameOf, markerSection.markerName)
        sectionStartIdx == markerSection.contentStartIndex + st.offset
        sectionEndIdx   == markerSection.contentEndIndex + st.offset
        sectionContent  == Slice(st.result, sectionStartIdx, sectionEndIdx)
        tableMatch      == MatchTable(sectionContent)
        tableHtml       == Slice(sectionContent, tableMatch.index, tableMatch.end)
        tableStartInSection == IndexOf(sectionContent, tableHtml)
        tbodyCloseIdx   == LastIndexOf(tableHtml, <<"</tbody>">>)
        newRowsHtml     == Join(Map(newRowsForSection, buildTableRow), <<"\n">>)
        insertPosition  == tableStartInSection + tbodyCloseIdx
    IN  IF newRowsForSection = <<>> THEN st
        ELSE IF tableMatch = Null THEN st
        ELSE IF tbodyCloseIdx = -1 THEN st
        ELSE [ result |-> Slice(st.result, 0, insertPosition) \o newRowsHtml \o <<"\n">>
                          \o SliceFrom(st.result, insertPosition),
               offset |-> st.offset + Len(newRowsHtml) + 1 ]

\* the line break behind the new rows is left out of the running offset
ProcessSectionShortOffset(st, markerSection, newRows) ==
    LET newRowsForSection == RowsOfKey(newRows, MarkerNameOf, markerSection.markerName)
        sectionStartIdx == markerSection.contentStartIndex + st.offset
        sectionEndIdx   == markerSection.contentEndIndex + st.offset
        sectionContent  == Slice(st.result, sectionStartIdx, sectionEndIdx)
        tableMatch      == MatchTable(sectionContent)
        tableHtml       == Slice(sectionContent, tableMatch.index, tableMatch.end)
        tableStartInSection == IndexOf(sectionContent, tableHtml)
        tbodyCloseIdx   == LastIndexOf(tableHtml, <<"</tbody>">>)
        newRowsHtml     == Join(Map(newRowsForSection, buildTableRow), <<"\n">>)
        insertPosition  == sectionStartIdx + tableStartInSection + tbodyCloseIdx
    IN  IF newRowsForSection = <<>> THEN st
        ELSE IF tableMatch = Null THEN st
        ELSE IF tbodyCloseIdx = -1 THEN st
        ELSE [ result |-> Slice(st.result, 0, insertPosition) \o newRowsHtml \o <<"\n">>
                          \o SliceFrom(st.result, insertPosition),
               offset |-> st.offset + Len(newRowsHtml) ]

\* one turn of the loop over the marker sections: st is [result, offset]
ProcessSection(st, markerSection, newRows) ==
    LET newRowsForSection == RowsOfKey(newRows, MarkerNameOf, markerSection.markerName)
        sectionStartIdx == markerSection.contentStartIndex + st.offset
        sectionEndIdx   == markerSection.contentEndIndex + st.offset
        sectionContent  == Slice(st.result, sectionStartIdx, sectionEndIdx)
        tableMatch      == MatchTable(sectionContent)
        tableHtml       == Slice(sectionContent, tableMatch.index, tableMatch.end)
        tableStartInSection == IndexOf(sectionContent, tableHtml)
        tbodyCloseIdx   == LastIndexOf(tableHtml, <<"</tbody>">>)
        newRowsHtml     == Join(Map(newRowsForSection, buildTableRow), <<"\n">>)
        insertPosition  == sectionStartIdx + tableStartInSection + tbodyCloseIdx
    IN  IF newRowsForSection = <<>> THEN st
        ELSE IF tableMatch = Null THEN st
        ELSE IF tbodyCloseIdx = -1 THEN st
        ELSE [ result |-> Slice(st.result, 0, insertPosition) \o newRowsHtml \o <<"\n">>
                          \o SliceFrom(st.result, insertPosition),
               offset |-> st.offset + Len(newRowsHtml) + 1 ]

\* the running offset is not carried over to the next section
addRowsWithCAGroupingNoOffset(existingContent, newRows) ==
    LET markerSections == findMarkerSections(existingContent)
        RECURSIVE Loop(_, _)
        Loop(st, k) ==
            IF k > Len(markerSections) THEN st.result
            ELSE Bind([ProcessSection(st, markerSections[k], newRows) EXCEPT !.offset = 0],
                      LAMBDA next : Loop(next, k + 1))
    IN  IF Len(markerSections) = 0
        THEN addRowsWithoutMarkers(existingContent, newRows)
        ELSE Loop([result |-> existingContent, offset |-> 0], 1)

addRowsWithCAGrouping(existingContent, newRows) ==
    LET markerSections == findMarkerSections(existingContent)
        RECURSIVE Loop(_, _)
        Loop(st, k) ==
            IF k > Len(markerSections) THEN st.result
            ELSE Bind(ProcessSection(st, markerSections[k], newRows),
                      LAMBDA next : Loop(next, k + 1))
    IN  IF Len(markerSections) = 0
        THEN addRowsWithoutMarkers(existingContent, newRows)
        ELSE Loop([result |-> existingContent, offset |-> 0], 1)

\* what a page is put together from outside the tool
StartMarker(name) == <<MacroOpen, "\n", BodyOf(name, "START"), "\n", MacroClose>>
EndMarker(name)   == <<MacroOpen, "\n", BodyOf(name, "END"), "\n", MacroClose>>
EmptyTable        == <<"<table>", "<tbody>", "<tr>", "<th>", "h", "</th>", "</tr>", "</tbody>", "</table>">>
TableNoTbody      == <<"<table>", "<tr>", "<th>", "h", "</th>", "</tr>", "</table>">>
Paragraph         == <<"\n", "<p>", "t", "</p>", "\n">>
Region(name)      == StartMarker(name) \o <<"\n">> \o EmptyTable \o <<"\n">> \o EndMarker(name)

PagePieces ==
    { StartMarker("SECTIGO"), EndMarker("SECTIGO"), EndMarker("LEGACY"),
      Region("SECTIGO"), Region("LEGACY"), TableNoTbody, Paragraph }

\* the rows of a submission
SectigoRow == [PlainRow EXCEPT !.issuingCA = CaSectigo, !.expiration = DateIso, !.cn = <<"s">>]
AcmeRow    == [PlainRow EXCEPT !.issuingCA = CaAcme, !.expiration = DateUsSlash, !.cn = <<"a">>]

RowPool == {SectigoRow, AcmeRow}

RECURSIVE SeqsUpTo(_, _)
SeqsUpTo(S, n) ==
    IF n = 0 THEN {<<>>}
    ELSE LET shorter == SeqsUpTo(S, n - 1)
         IN  shorter \cup {Append(q, x) : q \in shorter, x \in S}

Batches == SeqsUpTo(RowPool, MaxBatch)

MergeIdle == doc = <<>> /\ prevDoc = <<>> /\ batch = <<>> /\ lastOp = "edit" /\ found = <<>>
             /\ caSections = <<>>

\* the page is edited in Confluence: a piece is added at its end
EditPage ==
    /\ lastOp = "edit"
    /\ steps < MaxPieces
    /\ steps' = steps + 1
    /\ \E piece \in PagePieces : doc' = doc \o piece
    /\ UNCHANGED <<prevDoc, batch, lastOp, escapeVars, codecVars, classVars, sortVars, locatorVars, serviceVars>>

\* the page is edited in Confluence and its marker sections are looked for
FindSections ==
    /\ lastOp = "edit"
    /\ steps < MaxPieces
    /\ steps' = steps + 1
    /\ \E piece \in PagePieces : doc' = doc \o piece
    /\ found' = findMarkerSections(doc')
    /\ UNCHANGED <<caSections, prevDoc, batch, lastOp, escapeVars, codecVars, classVars, sortVars, serviceVars>>

\* a submission: the rows are merged into the page body as fetched
Merge ==
    /\ lastOp = "edit"
    /\ \E newRows \in Batches :
         /\ batch' = newRows
         /\ doc' = addRowsWithCAGrouping(doc, newRows)
    /\ prevDoc' = doc
    /\ lastOp' = "merge"
    /\ UNCHANGED <<steps, escapeVars, codecVars, classVars, sortVars, locatorVars, serviceVars>>

-----------------------------------------------------------------------------
(* ConfluenceClient: appendToTable / appendMultipleToTable (src/unnamed/part_006) *)

\* a heading tag as an editor writes it, with an attribute
HeadingOpenWithId == "<h2 id=\"certificates\">"

\* the headings of the page are written anew, without their attributes
appendToTableBareHeadings(body, r) ==
    LET bare(tok) == IF tok = HeadingOpenWithId THEN HeadingOpen[2] ELSE tok
        out == IF Trim(body) = <<>> THEN buildCATable(r.issuingCA, <<r>>, 3)
               ELSE addRowsWithCAGrouping(body, <<r>>)
    IN  [i \in 1..Len(out) |-> bare(out[i])]

\* the body is built anew whatever the page holds
appendToTableOverwrite(body, r) == buildCATable(r.issuingCA, <<r>>, 3)

\* the new body appendToTable sends for a page body and one row
appendToTable(body, r) ==
    IF Trim(body) = <<>>
    THEN buildCATable(r.issuingCA, <<r>>, 3)
    ELSE addRowsWithCAGrouping(body, <<r>>)

\* every certificate of the list goes into one table, under the first one's name
appendMultipleToTableOneTable(body, rowList) ==
    IF Trim(body) = <<>>
    THEN IF rowList = <<>> THEN <<>> ELSE buildCATable(rowList[1].issuingCA, rowList, 3)
    ELSE addRowsWithCAGrouping(body, rowList)

\* the new body appendMultipleToTable sends for a page body and a list of rows
appendMultipleToTable(body, rowList) ==
    LET sortedCAs == SortKeys(KeysInOrder(rowList, IssuingCAOf))
        section(ca) == buildCATable(ca, RowsOfKey(rowList, IssuingCAOf, ca), 3)
    IN  IF Trim(body) = <<>>
        THEN Join(Map(sortedCAs, section), Separator)
        ELSE addRowsWithCAGrouping(body, rowList)

\* certificates of a submission form
ExampleCn   == <<"a", ".", "e", "x", "a", "m", "p", "l", "e", ".", "c", "o", "m">>
ExampleRow  == [PlainRow EXCEPT !.issuingCA = CaSectigo, !.expiration = DateIso, !.cn = ExampleCn]
LateRow     == [PlainRow EXCEPT !.issuingCA = CaSectigo, !.expiration = DateUsSlash, !.cn = <<"l">>]
RsaRow      == [PlainRow EXCEPT !.issuingCA = CaSectigo \o CaRsaTail, !.expiration = DateIsoEarly, !.cn = <<"r">>]
ExistingRow == [PlainRow EXCEPT !.issuingCA = CaSectigo, !.expiration = DateIsoEarly, !.cn = <<"e">>]

AppendPool == {ExampleRow, LateRow, RsaRow, AcmeRow}

AppendBatches == SeqsUpTo(AppendPool, MaxBatch)

\* the SECTIGO section of a page, set up as documented, holding one certificate
SeededRegion ==
    StartMarker("SECTIGO") \o <<"\n">>
    \o buildCATable(<<"S">>, <<ExistingRow>>, 3) \o <<"\n">>
    \o EndMarker("SECTIGO")

\* the same under a heading written by hand, with an attribute, blanks and an entity
HeadedRegion ==
    StartMarker("SECTIGO") \o <<"\n">>
    \o <<HeadingOpenWithId, " ", "P">> \o AMP \o <<"Q", " ", HeadingClose[2], "\n">>
    \o <<TableOpen, "\n", "<tbody>", "\n">> \o HeaderRow \o <<"\n">>
    \o buildTableRow(ExistingRow) \o <<"\n", "</tbody>", "\n", "</table>", "\n">>
    \o EndMarker("SECTIGO")

SeedPieces == { <<"\n">>, Paragraph, SeededRegion, HeadedRegion }

\* the page is set up in Confluence before the first submission
SeedPage ==
    /\ lastOp = "edit"
    /\ steps < MaxSeeds
    /\ steps' = steps + 1
    /\ \E piece \in SeedPieces : doc' = doc \o piece
    /\ UNCHANGED <<prevDoc, batch, lastOp, escapeVars, codecVars, classVars, sortVars, locatorVars, serviceVars>>

\* one certificate is submitted
AppendToTable ==
    /\ lastOp = "edit"
    /\ \E r \in AppendPool :
         /\ batch' = <<r>>
         /\ doc' = appendToTable(doc, r)
    /\ prevDoc' = doc
    /\ lastOp' = "append"
    /\ UNCHANGED <<steps, escapeVars, codecVars, classVars, sortVars, locatorVars, serviceVars>>

\* several certificates are submitted in one call
AppendMultipleToTable ==
    /\ lastOp = "edit"
    /\ \E rowList \in AppendBatches :
         /\ batch' = rowList
         /\ doc' = appendMultipleToTable(doc, rowList)
    /\ prevDoc' = doc
    /\ lastOp' = "append"
    /\ UNCHANGED <<steps, escapeVars, codecVars, classVars, sortVars, locatorVars, serviceVars>>

-----------------------------------------------------------------------------
(* Marker locator of the earlier revision: findMarkerSections with two marker
   formats (storageFormat.ts, lines 852-939) *)

\* <span> tags of the htmlcomment macro: as Confluence Server writes it, and with
\* the attributes in another order
SpanOpen      == "<span class=\"conf-macro output-inline\" data-hasbody=\"true\" data-macro-name=\"htmlcomment\">"
SpanOpenOther == "<span data-macro-name=\"htmlcomment\" class=\"conf-macro output-inline\" data-hasbody=\"true\">"
SpanClose     == "</span>"

\* the comments that name a marker, each one token
MarkerComments ==
    { [token |-> "<!-- <p>SECTIGO-START</p> -->", name |-> "SECTIGO", kind |-> "START", p |-> TRUE],
      [token |-> "<!-- SECTIGO-START -->",        name |-> "SECTIGO", kind |-> "START", p |-> FALSE],
      [token |-> "<!-- <p>SECTIGO-END</p> -->",   name |-> "SECTIGO", kind |-> "END",   p |-> TRUE],
      [token |-> "<!-- SECTIGO-END -->",          name |-> "SECTIGO", kind |-> "END",   p |-> FALSE] }

CommentOf(name, kind, p) ==
    (CHOOSE c \in MarkerComments : c.name = name /\ c.kind = kind /\ c.p = p).token

IsStartComment(tok) == \E c \in MarkerComments : c.token = tok /\ c.kind = "START"

NameOfComment(tok) == (CHOOSE c \in MarkerComments : c.token = tok).name

\* the leftmost match of spanMarkerPattern at or after from, as [index, end, name],
\* or Null:  <span[^>]*data-macro-name="htmlcomment"[^>]*><!-- NAME-START --></span>
MatchSpanMarker(s, from) ==
    LET i == MinOrNone({k \in from..(Len(s) - 3) :
                          /\ s[k + 1] \in {SpanOpen, SpanOpenOther}
                          /\ IsStartComment(s[k + 2])
                          /\ s[k + 3] = SpanClose})
    IN  IF i = -1 THEN Null
        ELSE [index |-> i, end |-> i + 3, name |-> NameOfComment(s[i + 2])]

\* the leftmost match of plainMarkerPattern at or after from:  <!-- NAME-START -->
MatchPlainMarker(s, from) ==
    LET i == MinOrNone({k \in from..(Len(s) - 1) : IsStartComment(s[k + 1])})
    IN  IF i = -1 THEN Null
        ELSE [index |-> i, end |-> i + 1, name |-> NameOfComment(s[i + 1])]

\* the first of the patterns that content.indexOf finds at or after from, as
\* [index, marker], or Null
FirstFound(s, patterns, from) ==
    LET hits == {k \in 1..Len(patterns) : IndexOfFrom(s, patterns[k], from) # -1}
    IN  IF hits = {} THEN Null
        ELSE LET k == CHOOSE h \in hits : \A g \in hits : h <= g
             IN  [index |-> IndexOfFrom(s, patterns[k], from), marker |-> patterns[k]]

\* the end markers looked for behind a span-wrapped start marker
SpanEndMarkerPatterns(markerName) ==
    << <<SpanOpen, CommentOf(markerName, "END", TRUE), SpanClose>>,
       <<SpanOpen, CommentOf(markerName, "END", FALSE), SpanClose>> >>

\* the end markers looked for behind a plain start marker
PlainEndMarkerPatterns(markerName) ==
    << <<CommentOf(markerName, "END", FALSE)>>, <<CommentOf(markerName, "END", TRUE)>> >>

\* findMarkerSections of lines 852-939
findMarkerSectionsByFormat(content) ==
    LET RECURSIVE Scan(_, _)
        Scan(wrapped, from) ==
            LET match == IF wrapped THEN MatchSpanMarker(content, from)
                         ELSE MatchPlainMarker(content, from)
            IN  IF match = Null THEN <<>>
                ELSE LET patterns == IF wrapped THEN SpanEndMarkerPatterns(match.name)
                                     ELSE PlainEndMarkerPatterns(match.name)
                         endHit == FirstFound(content, patterns, match.end)
                     IN  IF endHit = Null THEN Scan(wrapped, match.end)
                         ELSE << [ markerName        |-> match.name,
                                   startMarker       |-> Slice(content, match.index, match.end),
                                   endMarker         |-> endHit.marker,
                                   startIndex        |-> match.index,
                                   endIndex          |-> endHit.index + Len(endHit.marker),
                                   contentStartIndex |-> match.end,
                                   contentEndIndex   |-> endHit.index ] >>
                              \o Scan(wrapped, match.end)
        sections == Scan(TRUE, 0)
    IN  IF Len(sections) = 0 THEN Scan(FALSE, 0) ELSE sections

\* what a page of a Confluence Server is put together from
SpanMarker(name, kind)      == <<SpanOpen, CommentOf(name, kind, TRUE), SpanClose>>
SpanMarkerOther(name, kind) == <<SpanOpenOther, CommentOf(name, kind, TRUE), SpanClose>>
PlainMarker(name, kind)     == <<CommentOf(name, kind, FALSE)>>

ServerPieces ==
    { SpanMarker("SECTIGO", "START"), SpanMarker("SECTIGO", "END"),
      SpanMarkerOther("SECTIGO", "END"),
      PlainMarker("SECTIGO", "START"), PlainMarker("SECTIGO", "END"),
      <<"t">> }

\* a piece is added to the page and the sections of the page are looked for
Locate ==
    /\ steps < MaxPieces
    /\ steps' = steps + 1
    /\ \E piece \in ServerPieces : doc' = doc \o piece
    /\ found' = findMarkerSectionsByFormat(doc')
    /\ UNCHANGED <<caSections, prevDoc, batch, lastOp, escapeVars, codecVars, classVars, sortVars, serviceVars>>

-----------------------------------------------------------------------------
(* Section parser: parseCASection *)

\* the tokens /<th[^>]*>/i matches
ThTokens == {HeaderRow[i] : i \in {3, 7, 11, 15, 19, 23, 27, 31}} \cup {"<th>"}

\* the tokens /<tr[^>]*>/i matches
TrTokens == {"<tr>"}

\* the matches of /<h([1-6])[^>]*>([\s\S]*?)<\/h\1>/gi in s from offset from on, each
\* as [index, end, level]
RECURSIVE MatchHeadings(_, _)
MatchHeadings(s, from) ==
    LET closeOf(i) == CHOOSE level \in 1..6 : s[i + 1] = HeadingOpen[level]
        starts == {i \in from..(Len(s) - 1) :
                     /\ \E level \in 1..6 : s[i + 1] = HeadingOpen[level]
                     /\ FindToken(s, {HeadingClose[closeOf(i)]}, i + 1) # -1}
        i == MinOrNone(starts)
    IN  IF i = -1 THEN <<>>
        ELSE LET j == FindToken(s, {HeadingClose[closeOf(i)]}, i + 1)
             IN  <<[index |-> i, end |-> j + 1, level |-> closeOf(i)]>>
                 \o MatchHeadings(s, j + 1)

\* the matches of /<tr[^>]*>([\s\S]*?)<\/tr>/gi in s from offset from on, whole
RECURSIVE MatchRows(_, _)
MatchRows(s, from) ==
    LET i == FindToken(s, TrTokens, from)
        j == IF i = -1 THEN -1 ELSE FindToken(s, {"</tr>"}, i + 1)
    IN  IF i = -1 \/ j = -1 THEN <<>>
        ELSE <<Slice(s, i, j + 1)>> \o MatchRows(s, j + 1)

HasHeaderCell(rowHtmlText) == \E i \in 1..Len(rowHtmlText) : rowHtmlText[i] \in ThTokens

\* the loop over the rows of a table: k is the next row
RECURSIVE CollectRows(_, _, _)
CollectRows(rowMatches, k, isFirstRow) ==
    IF k > Len(rowMatches) THEN <<>>
    ELSE IF HasHeaderCell(rowMatches[k]) THEN CollectRows(rowMatches, k + 1, isFirstRow)
    ELSE IF isFirstRow THEN CollectRows(rowMatches, k + 1, FALSE)
    ELSE LET parsed == parseTableRow(rowMatches[k])
         IN  (IF parsed = Null THEN <<>> ELSE <<parsed>>)
             \o CollectRows(rowMatches, k + 1, FALSE)

parseCASection(pageContent) ==
    LET headings == MatchHeadings(pageContent, 0)
        RECURSIVE Sections(_)
        Sections(i) ==
            IF i > Len(headings) THEN <<>>
            ELSE LET heading == headings[i]
                     nextHeadingIndex == IF i + 1 <= Len(headings) THEN headings[i + 1].index
                                         ELSE Len(pageContent)
                     sectionContent == Slice(pageContent, heading.index, nextHeadingIndex)
                     tableMatch == MatchTable(sectionContent)
                 IN  IF tableMatch = Null THEN Sections(i + 1)
                     ELSE << [ caName       |-> unescapeXml(Trim(Slice(pageContent, heading.index + 1,
                                                                  heading.end - 1))),
                               heading      |-> Slice(pageContent, heading.index, heading.end),
                               headingLevel |-> heading.level,
                               rows         |-> CollectRows(
                                                  MatchRows(Slice(sectionContent, tableMatch.index,
                                                                  tableMatch.end), 0), 1, TRUE),
                               startIndex   |-> heading.index,
                               endIndex     |-> heading.index
                                                + IndexOf(sectionContent, <<"</table>">>) + 1 ] >>
                          \o Sections(i + 1)
    IN  Sections(1)

\* what a page with the tables of the CAs is put together from
SectionHeading == <<HeadingOpen[3]>> \o CaSectigo \o <<HeadingClose[3], "\n">>
TableHead      == <<TableOpen, "\n", "<tbody>", "\n">> \o HeaderRow \o <<"\n">>
TableBare      == <<"<table>", "<tbody>", "\n">>
TableEnd       == <<"</tbody>", "\n", "</table>", "\n">>

SectionParts ==
    { SectionHeading, TableHead, TableBare, TableEnd,
      buildTableRow(ExampleRow) \o <<"\n">>, buildTableRow(LateRow) \o <<"\n">> }

\* a part is added to the page and the page is parsed
ParsePage ==
    /\ steps < MaxParts
    /\ steps' = steps + 1
    /\ \E part \in SectionParts : doc' = doc \o part
    /\ caSections' = parseCASection(doc')
    /\ UNCHANGED <<found, prevDoc, batch, lastOp, escapeVars, codecVars, classVars, sortVars, serviceVars>>

-----------------------------------------------------------------------------
(* The append handler and the page in Confluence: CONFLUENCE_APPEND_TO_TABLE
   (src/src/main/ipc/confluenceHandlers.ts 117-149) over getPageByTitle,
   updatePage, appendToTable and appendMultipleToTable (src/unnamed/part_006) *)

MaxTx == 3     \* submissions

\* the submissions, numbered in the order the handler is invoked
Submissions == 1..MaxTx

\* the page before the first submission: blank, with a SECTIGO section holding a
\* certificate, or with a LEGACY section only
StoredPages == { <<>>, SeededRegion, Region("LEGACY") }

\* the rows of a submission: one certificate or several
SubmittedBatches == { <<ExampleRow>>, <<LateRow, AcmeRow>> }

\* a submission before the handler is invoked for it
IdleTx ==
    [pc |-> "idle", rows |-> <<>>, page |-> Null, put |-> Null, returned |-> Null,
     attempts |-> 0, conflict |-> FALSE, accepted |-> FALSE]

SubmitIdle ==
    /\ store = [version |-> 1, body |-> <<>>]
    /\ tx = [s \in Submissions |-> IdleTx]
    /\ history = <<>>

\* the page getPageByTitle returns: the stored body with its version number
getPageByTitle == [version |-> store.version, body |-> store.body]

\* the PUT of updatePage: the body under the version number after the fetched one
updatePage(body, currentVersion) == [number |-> currentVersion + 1, body |-> body]

\* Confluence takes an update only under the number that follows the stored one
StoreAccepts(number) == number = store.version + 1

\* the body the client sends: appendToTable for one row, appendMultipleToTable otherwise
newBody(page, rowList) ==
    IF Len(rowList) = 1 THEN appendToTable(page.body, rowList[1])
    ELSE appendMultipleToTable(page.body, rowList)

\* recordSubmission, once per row
recordSubmissions(s, rowList) ==
    [i \in 1..Len(rowList) |-> [cn |-> rowList[i].cn, submission |-> s]]

\* the handler is invoked with the rows of a form and asks for the page
InvokeOf(s) ==
    /\ tx[s].pc = "idle"
    /\ s > 1 => tx[s - 1].pc # "idle"
    /\ \E rowList \in SubmittedBatches :
         tx' = [tx EXCEPT ![s] = [@ EXCEPT !.pc = "getPage", !.rows = rowList]]
    /\ UNCHANGED <<steps, store, history, engineVars, credVars, clientVars, templateVars>>

\* the answer to getPageByTitle arrives
GetPageOf(s) ==
    /\ tx[s].pc = "getPage"
    /\ tx' = [tx EXCEPT ![s] = [@ EXCEPT !.pc = "merge", !.page = getPageByTitle]]
    /\ UNCHANGED <<steps, store, history, engineVars, credVars, clientVars, templateVars>>

\* the rows are merged into the body fetched and the update is sent
SendUpdateOf(s) ==
    /\ tx[s].pc = "merge"
    /\ tx' = [tx EXCEPT ![s] =
                [@ EXCEPT !.pc = "updatePage",
                          !.put = updatePage(newBody(tx[s].page, tx[s].rows),
                                             tx[s].page.version),
                          !.attempts = @ + 1]]
    /\ UNCHANGED <<steps, store, history, engineVars, credVars, clientVars, templateVars>>

\* Confluence answers the update: when it takes it the rows are recorded in the
\* history and success is returned, when it refuses it the handler returns the error
UpdatePageOf(s) ==
    /\ tx[s].pc = "updatePage"
    /\ IF StoreAccepts(tx[s].put.number)
       THEN /\ store' = [version |-> tx[s].put.number, body |-> tx[s].put.body]
            /\ history' = history \o recordSubmissions(s, tx[s].rows)
            /\ tx' = [tx EXCEPT ![s] = [@ EXCEPT !.pc = "done",
                                                 !.accepted = TRUE,
                                                 !.returned = [success |-> TRUE]]]
       ELSE /\ tx' = [tx EXCEPT ![s] = [@ EXCEPT !.pc = "done",
                                                 !.conflict = TRUE,
                                                 !.returned = [success |-> FALSE]]]
            /\ UNCHANGED <<store, history>>
    /\ UNCHANGED <<steps, engineVars, credVars, clientVars, templateVars>>

Invoke     == \E s \in Submissions : InvokeOf(s)
GetPage    == \E s \in Submissions : GetPageOf(s)
SendUpdate == \E s \in Submissions : SendUpdateOf(s)
UpdatePage == \E s \in Submissions : UpdatePageOf(s)

-----------------------------------------------------------------------------
(* Credential store: saveCredentials, getCredentials, hasCredentials and
   clearCredentials (src/src/main/services/credentialStore.ts 1-167) *)

MaxOps == 5    \* calls on the credential store, the settings and the client

Usernames == {"alice", "bob"}
Tokens    == {"t1", "t2"}

\* JSON.stringify of the credentials; JSON.parse of a stored text, Null when it
\* is no such text
JSONStringify(credentials) == <<"{", credentials.username, credentials.token, "}">>

JSONParse(stored) ==
    IF Len(stored) = 4 /\ stored[1] = "{" /\ stored[4] = "}"
    THEN [username |-> stored[2], token |-> stored[3]]
    ELSE Null

\* encrypt puts the iv and the tag before the cipher text; decrypt takes them off
encrypt(plaintext) == <<"iv", "tag">> \o plaintext
decrypt(encryptedData) == SubSeq(encryptedData, 3, Len(encryptedData))

CredIdle ==
    /\ storageMethod = "unknown"
    /\ keychain = Null
    /\ fallback = Null
    /\ credLog = <<>>

\* getKeytar: keytar is loaded on the first call only; loads tells whether the
\* load succeeds
getKeytar(loads) ==
    IF storageMethod = "unknown"
    THEN IF loads THEN "keychain" ELSE "encrypted-db"
    ELSE storageMethod

\* the log of calls keeps the last call and the one before
Logged(call) == IF credLog = <<>> THEN <<call>> ELSE <<credLog[Len(credLog)], call>>

\* what getCredentials returns; keychainOk tells whether the keychain call succeeds
getCredentials(method, keychainOk) ==
    IF method = "keychain" /\ keychainOk /\ keychain # Null
    THEN JSONParse(keychain)
    ELSE IF fallback = Null THEN Null ELSE JSONParse(decrypt(fallback))

\* what hasCredentials returns
hasCredentials(method, keychainOk) ==
    IF method = "keychain" /\ keychainOk /\ keychain # Null
    THEN TRUE
    ELSE fallback # Null

\* saveCredentials(username, token): into the keychain, and into the settings
\* table when there is no keychain or the keychain refuses; dbOk tells whether
\* the settings table takes the write
SaveCredentials ==
    /\ steps < MaxOps
    /\ steps' = steps + 1
    /\ \E username \in Usernames, token \in Tokens, loads, keychainOk, dbOk \in BOOLEAN :
         LET kt == getKeytar(loads)
             credentials == [username |-> username, token |-> token]
             credentialsJson == JSONStringify(credentials)
             call(ok) == [op |-> "save", credentials |-> credentials, ok |-> ok]
         IN  /\ storageMethod' = kt
             /\ IF kt = "keychain" /\ keychainOk
                THEN /\ keychain' = credentialsJson
                     /\ fallback' = fallback
                     /\ credLog' = Logged(call(TRUE))
                ELSE IF dbOk
                THEN /\ fallback' = encrypt(credentialsJson)
                     /\ keychain' = keychain
                     /\ credLog' = Logged(call(TRUE))
                ELSE /\ UNCHANGED <<keychain, fallback>>
                     /\ credLog' = Logged(call(FALSE))
    /\ UNCHANGED <<engineVars, submitVars, clientVars, templateVars>>

\* getCredentials(); a keychain entry that does not parse is cleared
GetCredentials ==
    /\ steps < MaxOps
    /\ steps' = steps + 1
    /\ \E loads, keychainOk \in BOOLEAN :
         LET kt == getKeytar(loads)
             corrupted == kt = "keychain" /\ keychainOk /\ keychain # Null
                          /\ JSONParse(keychain) = Null
         IN  /\ storageMethod' = kt
             /\ keychain' = IF corrupted THEN Null ELSE keychain
             /\ fallback' = IF corrupted THEN Null ELSE fallback
             /\ credLog' = Logged([op |-> "get",
                                   credentials |-> getCredentials(kt, keychainOk),
                                   ok |-> TRUE])
    /\ UNCHANGED <<engineVars, submitVars, clientVars, templateVars>>

\* hasCredentials()
HasCredentials ==
    /\ steps < MaxOps
    /\ steps' = steps + 1
    /\ \E loads, keychainOk \in BOOLEAN :
         LET kt == getKeytar(loads)
         IN  /\ storageMethod' = kt
             /\ credLog' = Logged([op |-> "has", credentials |-> Null,
                                   ok |-> hasCredentials(kt, keychainOk)])
    /\ UNCHANGED <<keychain, fallback, engineVars, submitVars, clientVars, templateVars>>

\* clearCredentials(): both stores are cleared, each as far as it lets itself
ClearCredentials ==
    /\ steps < MaxOps
    /\ steps' = steps + 1
    /\ \E loads, keychainOk, dbOk \in BOOLEAN :
         LET kt == getKeytar(loads)
             keychainCleared == kt = "keychain" /\ keychainOk /\ keychain # Null
             dbCleared == dbOk /\ fallback # Null
         IN  /\ storageMethod' = kt
             /\ keychain' = IF kt = "keychain" /\ keychainOk THEN Null ELSE keychain
             /\ fallback' = IF dbOk THEN Null ELSE fallback
             /\ credLog' = Logged([op |-> "clear", credentials |-> Null,
                                   ok |-> keychainCleared \/ dbCleared])
    /\ UNCHANGED <<engineVars, submitVars, clientVars, templateVars>>

-----------------------------------------------------------------------------
(* The cached client: getClient (src/src/main/ipc/confluenceHandlers.ts 9-45)
   over getFullConfig and SETTINGS_SAVE_CONFIG (src/src/main/ipc/settingsHandlers.ts) *)

\* connection settings of the settings page
Configs ==
    { [confluenceBaseUrl |-> url, confluenceType |-> "server",
       confluenceSpaceKey |-> "PKI", confluenceUsername |-> "alice"] : url \in {"wiki", "docs"} }

ClientIdle ==
    /\ settings = Null
    /\ cachedClient = Null
    /\ cachedConfigHash = Null
    /\ request = Null

\* SETTINGS_SAVE_CONFIG: the four settings are written
SaveConfig ==
    /\ steps < MaxOps
    /\ steps' = steps + 1
    /\ \E config \in Configs : settings' = config
    /\ UNCHANGED <<cachedClient, cachedConfigHash, request,
                   engineVars, submitVars, credVars, templateVars>>

\* getFullConfig(): the settings with the stored credentials, Null without either
getFullConfig(method, keychainOk) ==
    LET credentials == getCredentials(method, keychainOk)
    IN  IF settings = Null \/ credentials = Null THEN Null
        ELSE [config |-> settings, credentials |-> credentials]

\* the hash getClient compares: the settings and the username
ConfigHash(fullConfig) == <<fullConfig.config, fullConfig.credentials.username>>

\* a handler asks getClient for the client and makes its request with it; the
\* request is noted with the credentials that were stored when it was made
Request ==
    /\ steps < MaxOps
    /\ steps' = steps + 1
    /\ \E loads, keychainOk \in BOOLEAN :
         LET kt == getKeytar(loads)
             fullConfig == getFullConfig(kt, keychainOk)
         IN  /\ storageMethod' = kt
             /\ IF fullConfig = Null
                THEN /\ request' = [client |-> Null, credentials |-> Null]
                     /\ UNCHANGED <<cachedClient, cachedConfigHash>>
                ELSE /\ IF cachedClient # Null /\ cachedConfigHash = ConfigHash(fullConfig)
                        THEN UNCHANGED <<cachedClient, cachedConfigHash>>
                        ELSE /\ cachedClient' = [baseUrl |-> fullConfig.config.confluenceBaseUrl,
                                                 credentials |-> fullConfig.credentials]
                             /\ cachedConfigHash' = ConfigHash(fullConfig)
                     /\ request' = [client |-> cachedClient',
                                    credentials |-> fullConfig.credentials]
    /\ UNCHANGED <<settings, keychain, fallback, credLog,
                   engineVars, submitVars, templateVars>>

-----------------------------------------------------------------------------
(* Templates table: createTemplate, updateTemplate, deleteTemplate and
   setDefaultTemplate (src/src/main/services/credentialStore.ts 264-339) *)

MaxTplCalls == 4    \* calls on the templates table

TemplateNames == {"web", "mail"}

\* an optional field of an input is <<>> when left out and <<v>> when given
Optional(S) == {<<>>} \cup {<<v>> : v \in S}

TemplateIdle ==
    /\ templates = {}
    /\ lastInsertRowid = 0
    /\ tplCall = [op |-> "none", id |-> 0, ok |-> FALSE, madeDefault |-> FALSE, before |-> {}]

\* the ids of the rows with is_default = 1
DefaultIds(table) == {t.id : t \in {u \in table : u.isDefault}}

\* UPDATE templates SET is_default = 0
unsetDefaults(table) == {[t EXCEPT !.isDefault = FALSE] : t \in table}

\* the new template is written without a look at the other rows
createTemplateKeepDefaults(table, rowid, input) ==
    IF \E t \in table : t.name = input.name
    THEN [templates |-> table, rowid |-> rowid, ok |-> FALSE]
    ELSE [templates |-> table \cup {[id |-> rowid + 1, name |-> input.name,
                                     isDefault |-> input.isDefault]},
          rowid |-> rowid + 1, ok |-> TRUE]

\* createTemplate(input): the defaults are unset first when the new template is
\* to be the default; the INSERT fails on a name the table holds already
createTemplate(table, rowid, input) ==
    LET cleared == IF input.isDefault THEN unsetDefaults(table) ELSE table
    IN  IF \E t \in cleared : t.name = input.name
        THEN [templates |-> cleared, rowid |-> rowid, ok |-> FALSE]
        ELSE [templates |-> cleared \cup {[id |-> rowid + 1, name |-> input.name,
                                           isDefault |-> input.isDefault]},
              rowid |-> rowid + 1, ok |-> TRUE]

\* updateTemplate(input): nothing for an unknown id; else the defaults are unset
\* when the template is to be the default, and the row takes the fields given
updateTemplate(table, input) ==
    LET existing == {t \in table : t.id = input.id}
        cleared  == IF input.isDefault = <<TRUE>> THEN unsetDefaults(table) ELSE table
        taken    == input.name # <<>>
                    /\ \E t \in cleared : t.id # input.id /\ t.name = input.name[1]
        updated(t) == [id |-> t.id,
                       name |-> IF input.name = <<>> THEN t.name ELSE input.name[1],
                       isDefault |-> IF input.isDefault = <<>> THEN t.isDefault
                                     ELSE input.isDefault[1]]
    IN  IF existing = {} THEN [templates |-> table, ok |-> FALSE]
        ELSE IF taken THEN [templates |-> cleared, ok |-> FALSE]
        ELSE [templates |-> {IF t.id = input.id THEN updated(t) ELSE t : t \in cleared},
              ok |-> TRUE]

\* deleteTemplate(id)
deleteTemplate(table, id) ==
    [templates |-> {t \in table : t.id # id}, ok |-> \E t \in table : t.id = id]

\* setDefaultTemplate(id): all defaults are unset, then the row of the id is set
setDefaultTemplate(table, id) ==
    [templates |-> {[t EXCEPT !.isDefault = (t.id = id)] : t \in unsetDefaults(table)},
     ok |-> \E t \in table : t.id = id]

\* the ids a call may name: those given out so far and one that was never given out
KnownIds == 1..(lastInsertRowid + 1)

CreateTemplate ==
    /\ steps < MaxTplCalls
    /\ steps' = steps + 1
    /\ \E name \in TemplateNames, isDefault \in BOOLEAN :
         LET done == createTemplate(templates, lastInsertRowid,
                                    [name |-> name, isDefault |-> isDefault])
         IN  /\ templates' = done.templates
             /\ lastInsertRowid' = done.rowid
             /\ tplCall' = [op |-> "create", id |-> done.rowid, ok |-> done.ok,
                            madeDefault |-> done.ok /\ isDefault,
                            before |-> DefaultIds(templates)]
    /\ UNCHANGED <<engineVars, submitVars, credVars, clientVars>>

UpdateTemplate ==
    /\ steps < MaxTplCalls
    /\ steps' = steps + 1
    /\ \E id \in KnownIds, name \in Optional(TemplateNames), isDefault \in Optional(BOOLEAN) :
         LET done == updateTemplate(templates, [id |-> id, name |-> name, isDefault |-> isDefault])
         IN  /\ templates' = done.templates
             /\ tplCall' = [op |-> "update", id |-> id, ok |-> done.ok,
                            madeDefault |-> done.ok /\ isDefault = <<TRUE>>,
                            before |-> DefaultIds(templates)]
    /\ UNCHANGED <<lastInsertRowid, engineVars, submitVars, credVars, clientVars>>

DeleteTemplate ==
    /\ steps < MaxTplCalls
    /\ steps' = steps + 1
    /\ \E id \in KnownIds :
         LET done == deleteTemplate(templates, id)
         IN  /\ templates' = done.templates
             /\ tplCall' = [op |-> "delete", id |-> id, ok |-> done.ok,
                            madeDefault |-> FALSE, before |-> DefaultIds(templates)]
    /\ UNCHANGED <<lastInsertRowid, engineVars, submitVars, credVars, clientVars>>

SetDefaultTemplate ==
    /\ steps < MaxTplCalls
    /\ steps' = steps + 1
    /\ \E id \in KnownIds :
         LET done == setDefaultTemplate(templates, id)
         IN  /\ templates' = done.templates
             /\ tplCall' = [op |-> "setDefault", id |-> id, ok |-> done.ok,
                            madeDefault |-> done.ok, before |-> DefaultIds(templates)]
    /\ UNCHANGED <<lastInsertRowid, engineVars, submitVars, credVars, clientVars>>

\* the state of the services before anything was stored
ServiceIdle == SubmitIdle /\ CredIdle /\ ClientIdle /\ TemplateIdle

-----------------------------------------------------------------------------
(* Specifications *)

\* the state before anything was built; the runtime is V8 in UTC
PureInit ==
    /\ steps = 0
    /\ EscapeIdle /\ CodecIdle /\ ClassIdle /\ SortIdle
    /\ engine = "legacy" /\ tzOffset = 0
    /\ MergeIdle
    /\ ServiceIdle

\* the engine before anything was handed to it
EngineIdle ==
    /\ steps = 0
    /\ EscapeIdle /\ CodecIdle /\ ClassIdle /\ SortIdle
    /\ engine = "legacy" /\ tzOffset = 0
    /\ MergeIdle

EscapeNext == EscapeText
EscapeSpec == PureInit /\ [][EscapeNext]_vars

CodecNext == SetField \/ SetSans
CodecSpec == PureInit /\ [][CodecNext]_vars

FragmentNext == AddDataCell \/ AddHeaderCell
FragmentSpec == PureInit /\ [][FragmentNext]_vars

ClassifyNext == Classify
ClassifySpec == PureInit /\ [][ClassifyNext]_vars

\* the sorter runs on any engine and in any time zone
SortInit ==
    /\ steps = 0
    /\ EscapeIdle /\ CodecIdle /\ ClassIdle /\ SortIdle
    /\ engine \in Engines /\ tzOffset \in TimeZones
    /\ MergeIdle
    /\ ServiceIdle

SortNext == SortRows
SortSpec == SortInit /\ [][SortNext]_vars

MergeNext == EditPage \/ Merge
MergeSpec == PureInit /\ [][MergeNext]_vars

AppendNext == SeedPage \/ AppendToTable \/ AppendMultipleToTable \/ Merge
AppendSpec == PureInit /\ [][AppendNext]_vars

\* the sections of every page are looked for before rows are merged into it
SectionsNext == FindSections \/ Merge
SectionsSpec == PureInit /\ [][SectionsNext]_vars

ParseNext == ParsePage
ParseSpec == PureInit /\ [][ParseNext]_vars

LocateNext == Locate
LocateSpec == PureInit /\ [][LocateNext]_vars

\* the classifier is called before and after the page is set up and written to
PurityNext == ClassifyCall \/ SeedPage \/ AppendToTable
PuritySpec == PureInit /\ [][PurityNext]_vars

\* submissions to one page, their requests interleaved in any way
SubmitInit ==
    /\ EngineIdle
    /\ store \in [version : {1}, body : StoredPages]
    /\ tx = [s \in Submissions |-> IdleTx]
    /\ history = <<>>
    /\ CredIdle /\ ClientIdle /\ TemplateIdle

SubmitNext == Invoke \/ GetPage \/ SendUpdate \/ UpdatePage
SubmitSpec == SubmitInit /\ [][SubmitNext]_vars

\* every request that was sent to Confluence is answered in the end
SubmitFairSpec == SubmitSpec /\ WF_vars(GetPage) /\ WF_vars(UpdatePage)

\* calls on the credential store, the settings and the client in any order
SettingsNext ==
    \/ SaveCredentials \/ GetCredentials \/ HasCredentials \/ ClearCredentials
    \/ SaveConfig \/ Request
SettingsSpec == PureInit /\ [][SettingsNext]_vars

\* calls on the templates table in any order
TemplateNext == CreateTemplate \/ UpdateTemplate \/ DeleteTemplate \/ SetDefaultTemplate
TemplateSpec == PureInit /\ [][TemplateNext]_vars

-----------------------------------------------------------------------------
(* Claims on the merge *)

\* the row fragments a section receives: the rows of its bucket, in batch order
BlockFor(markerSection, newRows) ==
    Join(Map(RowsOfKey(newRows, MarkerNameOf, markerSection.markerName), buildTableRow), <<"\n">>)
    \o <<"\n">>

\* the offset in D of the </tbody> that closes the first table of a section's
\* content; -1 when the content has no table or the table no </tbody>
ClosingTbody(D, markerSection) ==
    LET content == Slice(D, markerSection.contentStartIndex, markerSection.contentEndIndex)
        table   == MatchTable(content)
        tbody   == IF table = Null THEN -1
                   ELSE LastIndexOf(Slice(content, table.index, table.end), <<"</tbody>">>)
    IN  IF tbody = -1 THEN -1
        ELSE markerSection.contentStartIndex + table.index + tbody

\* the sections of D a batch touches: those whose bucket has rows in the batch and
\* whose table can take them
TouchedSections(D, newRows) ==
    SelectSeq(findMarkerSections(D),
              LAMBDA m : /\ RowsOfKey(newRows, MarkerNameOf, m.markerName) # <<>>
                         /\ ClosingTbody(D, m) # -1)

\* D with the block of each touched section put in before its closing </tbody>;
\* k is the next section, from the offset in D already copied
RECURSIVE WithInsertions(_, _, _, _, _)
WithInsertions(D, touched, newRows, k, from) ==
    IF k > Len(touched) THEN SliceFrom(D, from)
    ELSE LET at == ClosingTbody(D, touched[k])
         IN  Slice(D, from, at) \o BlockFor(touched[k], newRows)
             \o WithInsertions(D, touched, newRows, k + 1, at)

\* total length of the blocks of the first k touched sections
RECURSIVE Drift(_, _, _)
Drift(touched, newRows, k) ==
    IF k = 0 THEN 0
    ELSE Drift(touched, newRows, k - 1) + Len(BlockFor(touched[k], newRows))

IsPrefix(p, s) == Len(p) <= Len(s) /\ SubSeq(s, 1, Len(p)) = p

\* everything of D outside the contents of the touched sections stands in out
\* unchanged and in order: the text before the first touched content, the text
\* between one touched content and the next, and the text behind the last
FramePreserved(D, out, newRows) ==
    LET touched == TouchedSections(D, newRows)
        n       == Len(touched)
        total   == Drift(touched, newRows, n)
    IN  IF n = 0 THEN IsPrefix(D, out)
        ELSE /\ Len(out) = Len(D) + total
             /\ Slice(out, 0, touched[1].contentStartIndex) = Slice(D, 0, touched[1].contentStartIndex)
             /\ \A k \in 1..(n - 1) :
                  LET drift == Drift(touched, newRows, k)
                  IN  Slice(out, touched[k].contentEndIndex + drift,
                                 touched[k + 1].contentStartIndex + drift)
                        = Slice(D, touched[k].contentEndIndex, touched[k + 1].contentStartIndex)
             /\ SliceFrom(out, touched[n].contentEndIndex + total)
                  = SliceFrom(D, touched[n].contentEndIndex)

Inserted(r) == Includes(doc, buildTableRow(r))

\* C3: a merge that returns a page with some rows of the batch in it has put every
\* row of the batch in it
C3_AllOrNothing ==
    lastOp = "merge" =>
      ((\E i \in 1..Len(batch) : Inserted(batch[i])) => (\A i \in 1..Len(batch) : Inserted(batch[i])))

\* the heading+table fragments of a batch on the path without markers
Serialized(newRows) ==
    LET names == SortKeys(KeysInOrder(newRows, IssuingCAOf))
        section(caName) == buildCATable(caName, RowsOfKey(newRows, IssuingCAOf, caName), 3)
    IN  Join(Map(names, section), Separator)

\* C4 as stated: the merge of a page without marker sections is the trimmed page, the
\* separator and the serialized rows
C4_FallbackAppends ==
    (lastOp = "merge" /\ Len(findMarkerSections(prevDoc)) = 0) =>
      doc = Trim(prevDoc) \o Separator \o Serialized(batch)

\* C4 amended: that holds of every page without marker sections that is not empty
\* after trimming; of an empty or all-whitespace page the merge is the serialized
\* rows alone, without the separator
C4_FallbackAppendsToText ==
    (lastOp = "merge" /\ Len(findMarkerSections(prevDoc)) = 0) =>
      IF Trim(prevDoc) # <<>>
      THEN doc = Trim(prevDoc) \o Separator \o Serialized(batch)
      ELSE doc = Serialized(batch)

\* C4 witness: two rows of different CAs were appended to a page without markers
\* that had whitespace at both ends
C4_Witness ==
    /\ lastOp = "merge"
    /\ Len(findMarkerSections(prevDoc)) = 0
    /\ Trim(prevDoc) # <<>> /\ Trim(prevDoc) # prevDoc
    /\ Len(batch) = 2 /\ batch[1].issuingCA # batch[2].issuingCA
    /\ IsPrefix(Trim(prevDoc), doc)

-----------------------------------------------------------------------------
(* Claims on the row codec *)

\* a text the codec returns as it was given: no whitespace at either end
IsTrimmed(s) == Trim(s) = s

\* a row whose text fields and SANs are trimmed and whose SANs are not empty
IsTrimmedRow(r) ==
    /\ \A f \in RowFields : IsTrimmed(r[f])
    /\ \A i \in 1..Len(r.sans) : IsTrimmed(r.sans[i]) /\ r.sans[i] # <<>>

MarkupCharacters == {"&", "<", ">", "\"", "'"}

HasMarkup(s) == \E i \in 1..Len(s) : s[i] \in MarkupCharacters

C6_EscapeRoundTrips ==
    /\ unescaped = text
    /\ \A i \in 1..Len(escaped) :
         /\ escaped[i] \notin {"<", ">", "\"", "'"}
         /\ escaped[i] = "&" => \E e \in Entities : StartsWithAt(escaped, e, i - 1)

\* C6 witness: a text holding "&lt;" and a raw "<" was escaped and decoded
C6_Witness ==
    /\ Includes(text, LT) /\ text[Len(text)] = "<"
    /\ escaped # text
    /\ unescaped = text

\* the record parseTableRow is to build from eight cells
RowOfCells(c) ==
    [ expiration |-> c[1], cn |-> c[2],
      sans |-> IF c[3] = <<"x">> THEN <<>> ELSE << <<"s">> >>,
      issuingCA |-> c[4], requestor |-> c[5], location |-> c[6],
      distributionGroup |-> c[7], notes |-> c[8] ]

\* C7: a fragment decodes to null exactly when it holds fewer than 8 data cells (header
\* cells do not count), and one with 8 or more decodes to the record of its first 8
\* data cells in column order
C7_NullBelowEightCells ==
    /\ parsedRow = Null <=> Len(cells) < 8
    /\ Len(cells) >= 8 => parsedRow = RowOfCells(cells)

\* C7 witness: a fragment of header cells and eight data cells was decoded to a record
C7_Witness ==
    /\ Len(cells) = 8
    /\ Includes(rowHtml, <<"<th>">>)
    /\ cells[3] # <<"x">> /\ cells[1] # cells[2]
    /\ parsedRow # Null

-----------------------------------------------------------------------------
(* Claims on the classifier *)

Buckets == {"SECTIGO", "PKI-TIVO-COM", "THIRD-PARTY", "SDV", "LEGACY"}

\* s.toUpperCase(), one character
UpperChar(c) ==
    IF \E i \in 1..26 : LowerCase[i] = c
    THEN UpperCase[CHOOSE i \in 1..26 : LowerCase[i] = c]
    ELSE c

-----------------------------------------------------------------------------
(* Claims on the sorter *)

\* where a row stood in the input
InputPosition(r) == CHOOSE k \in 1..Len(rows) : rows[k] = r

\* the parsed date of a row of the input: dates holds parseFlexibleDate of each
Parseable(r) == dates[InputPosition(r)] # Null

TimeOf(r) == dates[InputPosition(r)].time

\* C9: the sorted list is a permutation of the input; its parseable rows are in
\* non-decreasing order of parsed date, every unparseable row comes after every
\* parseable one, and unparseable rows, and rows of equal date, keep their input order
C9_SortCorrect ==
    /\ Len(sortedRows) = Len(rows)
    /\ {sortedRows[i] : i \in 1..Len(sortedRows)} = {rows[i] : i \in 1..Len(rows)}
    /\ \A i, j \in 1..Len(sortedRows) :
         i < j =>
           LET a == sortedRows[i]
               b == sortedRows[j]
           IN  /\ Parseable(b) => Parseable(a)
               /\ (Parseable(a) /\ Parseable(b)) => TimeOf(a) <= TimeOf(b)
               /\ (~Parseable(a) /\ ~Parseable(b)) => InputPosition(a) < InputPosition(b)
               /\ (Parseable(a) /\ Parseable(b) /\ TimeOf(a) = TimeOf(b))
                    => InputPosition(a) < InputPosition(b)

\* C9 witness: an unparseable row given first went last, behind two parseable rows
\* that changed places
C9_Witness ==
    /\ Len(rows) = 3
    /\ ~Parseable(rows[1]) /\ rows[1].expiration # <<>>
    /\ Parseable(rows[2]) /\ Parseable(rows[3]) /\ TimeOf(rows[3]) < TimeOf(rows[2])
    /\ sortedRows = <<rows[3], rows[2], rows[1]>>

\* C10: an expiration A/B/YYYY with A above 12 is parsed as day A of month B of year
\* YYYY, so "13/02/2026" is 13 February 2026
C10_EuropeanDayFirst ==
    \A i \in 1..Len(rows) :
      LET m == MatchDate(Trim(rows[i].expiration), "/", OneOrTwo, OneOrTwo, Four)
      IN  (m # Null /\ m.g1 > 12) => dates[i] = LocalDate(m.g3, m.g2 - 1, m.g1)


-----------------------------------------------------------------------------
(* Claims on regions that cannot take rows *)

\* the text between the markers of a section of D
ContentOf(D, markerSection) ==
    Slice(D, markerSection.contentStartIndex, markerSection.contentEndIndex)

\* the sections of D whose bucket has rows in the batch
ReceivingSections(D, newRows) ==
    SelectSeq(findMarkerSections(D),
              LAMBDA m : RowsOfKey(newRows, MarkerNameOf, m.markerName) # <<>>)

\* C11: a merge returns a page only if every section that was to receive rows
\* holds a table; with a receiving section without table the call fails instead
C11_NoTableIsFatal ==
    lastOp = "merge" =>
      \A k \in 1..Len(ReceivingSections(prevDoc, batch)) :
        MatchTable(ContentOf(prevDoc, ReceivingSections(prevDoc, batch)[k])) # Null


-----------------------------------------------------------------------------
(* Claims on a section that already holds a certificate *)

\* the data rows of a piece of markup, decoded, in order: the <tr> elements that
\* hold eight data cells
DataRows(markup) ==
    LET trs == Captures(markup, {"<tr>"}, "</tr>", 0)
    IN  SelectSeq(Map(trs, parseTableRow), LAMBDA r : r # Null)

\* the sections of D named name
SectionsNamed(D, name) ==
    SelectSeq(findMarkerSections(D), LAMBDA m : m.markerName = name)

\* the first table of a section's content; <<>> when it has none
TableOf(D, markerSection) ==
    LET content == ContentOf(D, markerSection)
        table   == MatchTable(content)
    IN  IF table = Null THEN <<>> ELSE Slice(content, table.index, table.end)

ExpirationTime(r) == parseFlexibleDate(r.expiration).time

\* the case of C12: one row classified SECTIGO, of a later date than the one row
\* that the table of the page's one SECTIGO section holds
ScenarioE ==
    /\ lastOp = "append"
    /\ Len(batch) = 1
    /\ MarkerNameOf(batch[1]) = "SECTIGO"
    /\ Len(SectionsNamed(prevDoc, "SECTIGO")) = 1
    /\ LET old == DataRows(TableOf(prevDoc, SectionsNamed(prevDoc, "SECTIGO")[1]))
       IN  /\ Len(old) = 1
           /\ parseFlexibleDate(old[1].expiration) # Null
           /\ parseFlexibleDate(batch[1].expiration) # Null
           /\ ExpirationTime(old[1]) < ExpirationTime(batch[1])

\* C12: in that case the output has the same start and end marker around the
\* section, the section's table holds exactly two data rows, the old one and the new
\* one, in ascending order of date, and the text before the start marker and the text
\* behind the end marker are those of the input
C12_ScenarioE ==
    ScenarioE =>
      LET m    == SectionsNamed(prevDoc, "SECTIGO")[1]
          outs == SectionsNamed(doc, "SECTIGO")
          n    == outs[1]
          old  == DataRows(TableOf(prevDoc, m))
          new  == DataRows(TableOf(doc, n))
      IN  /\ Len(outs) = 1
          /\ Slice(doc, n.startIndex, n.contentStartIndex)
               = Slice(prevDoc, m.startIndex, m.contentStartIndex)
          /\ Slice(doc, n.contentEndIndex, n.endIndex)
               = Slice(prevDoc, m.contentEndIndex, m.endIndex)
          /\ new = old \o batch
          /\ ExpirationTime(new[1]) <= ExpirationTime(new[2])
          /\ Slice(doc, 0, n.startIndex) = Slice(prevDoc, 0, m.startIndex)
          /\ SliceFrom(doc, n.endIndex) = SliceFrom(prevDoc, m.endIndex)

\* C12 witness: the case happened on a page with text before and behind the section
C12_Witness ==
    /\ ScenarioE
    /\ batch = <<ExampleRow>>
    /\ prevDoc = Paragraph \o SeededRegion
    /\ doc # prevDoc


-----------------------------------------------------------------------------
(* Claims on a page without content *)

\* the offsets of the heading tags of D, in order
HeadingStarts(D) ==
    SelectSeq([i \in 1..Len(D) |-> i - 1],
              LAMBDA i : \E level \in 1..6 : D[i + 1] = HeadingOpen[level])

\* the pieces of D that start at a heading and end before the next one
HeadingFragments(D) ==
    LET starts == HeadingStarts(D)
    IN  [k \in 1..Len(starts) |->
           Slice(D, starts[k], IF k < Len(starts) THEN starts[k + 1] ELSE Len(D))]

\* fragment is a heading that says name, a line break and a table, and whitespace
IsCAFragment(fragment, name) ==
    LET table == MatchTable(fragment)
        head  == <<HeadingOpen[3]>> \o escapeXml(name) \o <<HeadingClose[3], "\n">>
    IN  /\ table # Null
        /\ Slice(fragment, 0, table.index) = head
        /\ Trim(SliceFrom(fragment, table.end)) = <<>>

\* how often x occurs in list
Occurrences(list, x) == Cardinality({i \in 1..Len(list) : list[i] = x})

\* the same elements, each as often, in any order
SameBag(l1, l2) ==
    /\ Len(l1) = Len(l2)
    /\ \A i \in 1..Len(l1) : Occurrences(l1, l1[i]) = Occurrences(l2, l1[i])

BlankPageCase == lastOp \in {"append", "merge"} /\ Trim(prevDoc) = <<>>

\* C13: on a page without content the output is nothing but fragments of a heading
\* and a table, one per name of an issuing CA in R, and the tables hold one data row
\* per record of R; one "Sectigo" record for a.example.com gives one heading "Sectigo"
\* and a table with the one data row of a.example.com
C13_BlankPage ==
    BlankPageCase =>
      LET fragments == HeadingFragments(doc)
          names     == KeysInOrder(batch, IssuingCAOf)
      IN  /\ Len(fragments) = Len(names)
          /\ HeadingStarts(doc) # <<>> => HeadingStarts(doc)[1] = 0
          /\ fragments = <<>> => doc = <<>>
          /\ \A k \in 1..Len(fragments) :
               \E name \in {names[j] : j \in 1..Len(names)} :
                 /\ IsCAFragment(fragments[k], name)
                 /\ SameBag(DataRows(fragments[k]), RowsOfKey(batch, IssuingCAOf, name))
          /\ SameBag(DataRows(doc), batch)
          /\ batch = <<ExampleRow>> =>
               /\ Len(fragments) = 1
               /\ IsCAFragment(doc, CaSectigo)
               /\ Len(DataRows(doc)) = 1
               /\ DataRows(doc)[1].cn = ExampleCn

\* C13 witness: two certificates of two CAs were submitted to a page of whitespace
C13_Witness ==
    /\ BlankPageCase
    /\ prevDoc = <<"\n">>
    /\ batch = <<ExampleRow, AcmeRow>>
    /\ Len(HeadingFragments(doc)) = 2

\* C13 witness of the example: a.example.com was submitted to the empty page
C13_WitnessExample ==
    /\ BlankPageCase
    /\ prevDoc = <<>>
    /\ batch = <<ExampleRow>>
    /\ lastOp = "append"


-----------------------------------------------------------------------------
(* Claims on the classifier as a function *)

\* every recorded result is the result for its argument, whenever it is asked for
SameAnswer ==
    \A i \in 1..Len(calls) :
      /\ calls[i].result = getMarkerSectionForCA(calls[i].issuingCA)
      /\ \A j \in 1..Len(calls) :
           calls[i].issuingCA = calls[j].issuingCA => calls[i].result = calls[j].result

-----------------------------------------------------------------------------
(* Claims on the sections findMarkerSections returns *)

\* C15: of any two sections findMarkerSections returns, one ends at or before the
\* offset at which the other starts
C15_NoOverlap ==
    LET markerSections == findMarkerSections(doc)
    IN  \A i, j \in 1..Len(markerSections) :
          i < j => \/ markerSections[i].endIndex <= markerSections[j].startIndex
                   \/ markerSections[j].endIndex <= markerSections[i].startIndex


-----------------------------------------------------------------------------
(* Claims on the running offset of a merge *)

\* the working text and the running offset before the loop and after each of its
\* first k turns
RECURSIVE LoopStates(_, _, _, _)
LoopStates(D, markerSections, newRows, k) ==
    IF k = 0 THEN << [result |-> D, offset |-> 0] >>
    ELSE LET before == LoopStates(D, markerSections, newRows, k - 1)
         IN  Append(before, ProcessSection(before[k], markerSections[k], newRows))

\* the same after the k-th turn of the merge of newRows into D
LoopState(D, newRows, k) ==
    LET markerSections == findMarkerSections(D)
    IN  LoopStates(D, markerSections, newRows, k)[k + 1]

\* C16: after every turn of the loop the running offset is the length of the
\* working text minus the length of D; a section that is skipped leaves it as it
\* was; the rows of a section that is edited are put in at the offset in D of the
\* table's closing </tbody> plus the running offset, and in the output they stand
\* between the start marker and the end marker of that section
C16_DriftBookkeeping ==
    lastOp = "merge" =>
      Bind(findMarkerSections(prevDoc), LAMBDA markerSections :
      Bind(LoopStates(prevDoc, markerSections, batch, Len(markerSections)), LAMBDA turns :
      Bind(findMarkerSections(doc), LAMBDA outs :
      Bind(Map(batch, MarkerNameOf), LAMBDA names :
        LET n == Len(markerSections)
        IN  \/ n = 0
            \/ /\ turns[n + 1].result = doc
               /\ Len(outs) = n
               /\ \A k \in 1..n :
                    LET m      == markerSections[k]
                        before == turns[k]
                        after  == turns[k + 1]
                        at     == ClosingTbody(prevDoc, m)
                        edited == at # -1 /\ \E i \in 1..Len(names) : names[i] = m.markerName
                        p      == at + before.offset
                        q      == p + after.offset - before.offset
                    IN  /\ after.offset = Len(after.result) - Len(prevDoc)
                        /\ ~edited => after = before
                        /\ edited =>
                             /\ q > p
                             /\ Slice(after.result, 0, p) = Slice(before.result, 0, p)
                             /\ SliceFrom(after.result, q) = SliceFrom(before.result, p)
                             /\ Slice(doc, p, q) = Slice(after.result, p, q)
                             /\ outs[k].markerName = m.markerName
                             /\ outs[k].contentStartIndex <= p
                             /\ q <= outs[k].contentEndIndex))))

\* C16 witness: one merge put rows into two sections, with a section that was
\* skipped between them
C16_Witness ==
    /\ lastOp = "merge"
    /\ Len(findMarkerSections(prevDoc)) = 3
    /\ LoopState(prevDoc, batch, 1).offset > 0
    /\ LoopState(prevDoc, batch, 2) = LoopState(prevDoc, batch, 1)
    /\ LoopState(prevDoc, batch, 3).offset > LoopState(prevDoc, batch, 2).offset


-----------------------------------------------------------------------------
(* Claims on a section without content *)

\* content holds no heading, no table and no row
HoldsNothing(content) ==
    /\ HeadingStarts(content) = <<>>
    /\ MatchTable(content) = Null
    /\ DataRows(content) = <<>>

\* C17: a section that receives rows and holds neither a heading nor a table holds,
\* after the merge, a heading and a table with exactly the new rows of its name in
\* order of date
C17_EmptyRegionFilled ==
    lastOp = "merge" =>
      LET ins  == findMarkerSections(prevDoc)
          outs == findMarkerSections(doc)
      IN  \A k \in 1..Len(ins) :
            LET newRowsForSection == RowsOfKey(batch, MarkerNameOf, ins[k].markerName)
            IN  (newRowsForSection # <<>> /\ HoldsNothing(ContentOf(prevDoc, ins[k]))) =>
                  /\ k <= Len(outs)
                  /\ HeadingStarts(ContentOf(doc, outs[k])) # <<>>
                  /\ DataRows(ContentOf(doc, outs[k])) = sortRowsByDate(newRowsForSection)


-----------------------------------------------------------------------------
(* Claims on the grouping of rows on a page without sections *)

\* C18: on a page without sections there is one new fragment per marker name the
\* classifier gives the rows of R, two rows of the same marker name stand in the
\* same fragment, and the rows of every fragment are in order of date
C18_FallbackByBucket ==
    (lastOp \in {"append", "merge"} /\ findMarkerSections(prevDoc) = <<>>) =>
      LET fragments == HeadingFragments(SliceFrom(doc, Len(TrimEnd(prevDoc))))
      IN  /\ Len(fragments) = Len(KeysInOrder(batch, MarkerNameOf))
          /\ \A i, j \in 1..Len(batch) :
               MarkerNameOf(batch[i]) = MarkerNameOf(batch[j]) =>
                 \E k \in 1..Len(fragments) :
                   /\ Occurrences(DataRows(fragments[k]), batch[i]) > 0
                   /\ Occurrences(DataRows(fragments[k]), batch[j]) > 0
          /\ \A k \in 1..Len(fragments) :
               DataRows(fragments[k]) = sortRowsByDate(DataRows(fragments[k]))


-----------------------------------------------------------------------------
(* Claims on a start marker without an end marker *)

MarkerNames == {b.name : b \in MarkerBodies}

\* the start markers of D, each as the offset behind it and its name
StartMarkersOf(D) ==
    LET ends == { i \in 5..Len(D) : /\ D[i - 4] = MacroOpen
                                    /\ IsBody(D[i - 2], "START")
                                    /\ Slice(D, i - 5, i) = StartMarker(NameOfBody(D[i - 2])) }
    IN  { [end |-> i, name |-> NameOfBody(D[i - 2])] : i \in ends }

\* an end marker of this name stands at or behind offset i of D
HasEndMarker(D, name, i) == IndexOfFrom(D, EndMarker(name), i) # -1

\* the start markers of D that have no end marker of their name behind them
Dangling(D) == {sm \in StartMarkersOf(D) : ~HasEndMarker(D, sm.name, sm.end)}

\* C20: a start marker gives a section exactly if an end marker of its name stands
\* behind it, so one without an end marker gives none and takes none away from the
\* others; a merge of a page with such a start marker still puts the rows into the
\* sections that take them, or behind the page when it has no section
C20_MissingEndSkipped ==
    /\ lastOp = "edit" =>
         \A sm \in StartMarkersOf(doc) :
           HasEndMarker(doc, sm.name, sm.end)
             <=> \E k \in 1..Len(found) :
                   /\ found[k].contentStartIndex = sm.end
                   /\ found[k].markerName = sm.name
    /\ (lastOp = "merge" /\ Dangling(prevDoc) # {}) =>
         IF findMarkerSections(prevDoc) = <<>>
         THEN IsPrefix(Trim(prevDoc), doc)
         ELSE doc = WithInsertions(prevDoc, TouchedSections(prevDoc, batch), batch, 1, 0)

\* C20 witness: a SECTIGO start marker without an end marker stands before a whole
\* LEGACY section, and a merge has put a row into that section
C20_Witness ==
    /\ lastOp = "merge"
    /\ prevDoc = StartMarker("SECTIGO") \o Region("LEGACY")
    /\ Dangling(prevDoc) # {}
    /\ Len(found) = 1
    /\ found[1].markerName = "LEGACY"
    /\ doc # prevDoc


-----------------------------------------------------------------------------
(* Claims on the two marker formats of the earlier revision *)

\* the token at offset i of D is a comment that stands inside a span of the
\* htmlcomment macro
InsideSpan(D, i) ==
    /\ i >= 1 /\ i + 2 <= Len(D)
    /\ D[i] \in {SpanOpen, SpanOpenOther}
    /\ D[i + 2] = SpanClose

\* a section whose start marker is a span-wrapped one
IsWrapped(markerSection) == Len(markerSection.startMarker) = 3

\* D holds a span-wrapped start marker with a span-wrapped end marker, as the
\* locator writes it, behind it
HasWrappedPair(D) ==
    \E i \in 0..Len(D) :
      /\ MatchSpanMarker(D, i) # Null
      /\ FirstFound(D, SpanEndMarkerPatterns("SECTIGO"), MatchSpanMarker(D, i).end) # Null

\* C19: the sections found are span-wrapped ones whenever the page holds a pair of
\* span-wrapped markers and plain ones only when it holds none; they are never of
\* both formats; and no plain section starts or ends at the comment inside a
\* span-wrapped marker
C19_DialectPriority ==
    /\ found = findMarkerSectionsByFormat(doc)
    /\ HasWrappedPair(doc) => found # <<>> /\ \A k \in 1..Len(found) : IsWrapped(found[k])
    /\ \A j, k \in 1..Len(found) : IsWrapped(found[j]) = IsWrapped(found[k])
    /\ \A k \in 1..Len(found) :
         ~IsWrapped(found[k]) =>
           /\ ~InsideSpan(doc, found[k].startIndex)
           /\ ~InsideSpan(doc, found[k].contentEndIndex)


-----------------------------------------------------------------------------
(* Claims on the offsets of a section *)

\* the page the sections in found were found in
PageLookedAt == IF lastOp = "edit" THEN doc ELSE prevDoc

\* C21: of every section found, the four offsets are in order within the page, the
\* content starts behind the text matched as start marker and the section ends
\* behind the text matched as end marker; the start text ends in the start marker
\* of the section's name and the end text in its end marker
C21_OffsetsInOrder ==
    \A k \in 1..Len(found) :
      LET m == found[k]
          D == PageLookedAt
      IN  /\ 0 <= m.startIndex
          /\ m.startIndex <= m.contentStartIndex
          /\ m.contentStartIndex <= m.contentEndIndex
          /\ m.contentEndIndex <= m.endIndex
          /\ m.endIndex <= Len(D)
          /\ m.contentStartIndex = m.startIndex + Len(m.startMarker)
          /\ m.endIndex = m.contentEndIndex + Len(m.endMarker)
          /\ Slice(D, m.startIndex, m.contentStartIndex) = m.startMarker
          /\ Slice(D, m.contentEndIndex, m.endIndex) = m.endMarker
          /\ Slice(D, m.contentStartIndex - 5, m.contentStartIndex) = StartMarker(m.markerName)
          /\ Slice(D, m.endIndex - 5, m.endIndex) = EndMarker(m.markerName)

\* C21 witness: two sections were found, the second with content between its markers
C21_Witness ==
    /\ lastOp = "edit"
    /\ Len(found) = 2
    /\ found[2].contentStartIndex < found[2].contentEndIndex
    /\ found[1].endIndex <= found[2].contentStartIndex


-----------------------------------------------------------------------------
(* Claims on the section parser *)

\* the first table between a heading and the next one; <<>> when there is none
FirstTableFrom(D, from, next) ==
    LET content == Slice(D, from, next)
        table   == MatchTable(content)
    IN  IF table = Null THEN <<>> ELSE Slice(content, table.index, table.end)

\* C22: every section parseCASection returns holds, in the order of the page, one
\* row for each row of the first table behind its heading that has no header cell
\* and at least eight data cells
C22_EveryDataRowKept ==
    LET headings == MatchHeadings(doc, 0)
        next(index) == MinOrNone({h.index : h \in {headings[j] : j \in 1..Len(headings)}}
                                 \cap (index + 1)..Len(doc))
    IN  \A k \in 1..Len(caSections) :
          LET from  == caSections[k].startIndex
              until == IF next(from) = -1 THEN Len(doc) ELSE next(from)
          IN  caSections[k].rows = DataRows(FirstTableFrom(doc, from, until))


-----------------------------------------------------------------------------
(* Claims on the heading of a section *)

HeadingOpens == {HeadingOpen[level] : level \in 1..6} \cup {HeadingOpenWithId}
HeadingCloses == {HeadingClose[level] : level \in 1..6}

\* the first heading of a piece of markup, from its opening tag to its closing tag,
\* as [index, markup]; Null when there is none
FirstHeading(markup) ==
    LET i == FindToken(markup, HeadingOpens, 0)
        j == IF i = -1 THEN -1 ELSE FindToken(markup, HeadingCloses, i + 1)
    IN  IF i = -1 \/ j = -1 THEN Null
        ELSE [index |-> i, markup |-> Slice(markup, i, j + 1)]

\* how many heading tags D holds
HeadingCount(D) == Cardinality({i \in 1..Len(D) : D[i] \in HeadingOpens})

\* C23: when a section of the page that takes rows of the batch holds a heading,
\* the section holds the same heading markup at the same place after the merge,
\* and the page holds no heading more than before
C23_HeadingKept ==
    (lastOp \in {"append", "merge"} /\ findMarkerSections(prevDoc) # <<>>) =>
      LET ins  == findMarkerSections(prevDoc)
          outs == findMarkerSections(doc)
      IN  \A k \in 1..Len(ins) :
            LET heading == FirstHeading(ContentOf(prevDoc, ins[k]))
            IN  ( /\ RowsOfKey(batch, MarkerNameOf, ins[k].markerName) # <<>>
                  /\ heading # Null ) =>
                    /\ Len(outs) = Len(ins)
                    /\ FirstHeading(ContentOf(doc, outs[k])) = heading
                    /\ HeadingCount(doc) = HeadingCount(prevDoc)

\* C23 witness: a row went into the section under the heading written by hand
C23_Witness ==
    /\ lastOp = "append"
    /\ prevDoc = HeadedRegion
    /\ batch = <<ExampleRow>>
    /\ Len(DataRows(doc)) = 2
    /\ FirstHeading(doc).markup[1] = HeadingOpenWithId


-----------------------------------------------------------------------------
(* Claims on the number of rows a merge adds *)

\* every row of the batch has a section of its marker name in D
EveryBucketHasSection(D, newRows) ==
    \A i \in 1..Len(newRows) : SectionsNamed(D, MarkerNameOf(newRows[i])) # <<>>

\* C26: a merge on a page with sections puts each row of the batch at exactly
\* one place: when every row's marker name has a section, the page returned
\* holds exactly Len(batch) more data rows than the page handed in, two sections
\* of one name included
C26_NoDuplication ==
    (lastOp = "merge" /\ findMarkerSections(prevDoc) # <<>>
       /\ EveryBucketHasSection(prevDoc, batch)) =>
      Len(DataRows(doc)) = Len(DataRows(prevDoc)) + Len(batch)

\* two sections named SECTIGO, each with a table, and one Sectigo row
TwoSectionsOfOneName ==
    /\ lastOp = "merge"
    /\ prevDoc = Region("SECTIGO") \o Region("SECTIGO")
    /\ batch = <<SectigoRow>>

RowGoesIntoBothSections ==
    TwoSectionsOfOneName => Len(DataRows(doc)) = Len(DataRows(prevDoc)) + 2


-----------------------------------------------------------------------------
(* Claims on submissions to one page *)

\* C24: a submission whose update Confluence refused for its version number is
\* tried again from a fresh page: in the end it is stored, or it has sent more
\* than one update before it is given up
C24_RetriedOnConflict ==
    \A s \in Submissions :
      tx[s].conflict ~> (tx[s].accepted \/ tx[s].attempts > 1)

\* both submissions have fetched the page under one version number and sent their update
FetchedSameVersion(s, t) ==
    /\ s # t
    /\ tx[s].pc = "done" /\ tx[t].pc = "done"
    /\ tx[s].page.version = tx[t].page.version

\* at most one of two submissions that fetched the same version is taken
AtMostOneAccepted ==
    \A s, t \in Submissions :
      FetchedSameVersion(s, t) =>
        /\ tx[s].put.number = tx[s].page.version + 1
        /\ tx[t].put.number = tx[s].page.version + 1
        /\ ~(tx[s].accepted /\ tx[t].accepted)

\* a submission Confluence refused returns success = false
RejectedReportsFailure ==
    \A s \in Submissions :
      (tx[s].pc = "done" /\ ~tx[s].accepted) => tx[s].returned = [success |-> FALSE]

\* the history holds rows of submissions Confluence took only
HistoryOfAccepted ==
    \A i \in 1..Len(history) : tx[history[i].submission].accepted

\* the page stored holds every row of every submission that returned success
StoredHoldsSuccessful ==
    \A s \in Submissions :
      tx[s].returned = [success |-> TRUE] =>
        \A i \in 1..Len(tx[s].rows) :
          \E k \in 1..Len(DataRows(store.body)) : DataRows(store.body)[k] = tx[s].rows[i]

\* C25: of two submissions that fetched the page under the same version both send
\* the next number and at most one is taken; the one refused returns
\* success = false; the history holds rows of submissions that were taken only;
\* and the page stored holds the rows of every submission that returned success
C25_NoLostUpdate ==
    (\E s, t \in Submissions : FetchedSameVersion(s, t)) =>
      /\ AtMostOneAccepted
      /\ RejectedReportsFailure
      /\ HistoryOfAccepted
      /\ StoredHoldsSuccessful

\* two submissions of a Sectigo certificate fetched version 1 of a page that has a
\* LEGACY section only; one was taken and returned success, the other was refused
InterleavedOnLegacyPage ==
    /\ FetchedSameVersion(1, 2)
    /\ tx[1].page.body = Region("LEGACY")
    /\ tx[1].rows = <<ExampleRow>> /\ tx[2].rows = <<ExampleRow>>
    /\ tx[1].accepted /\ ~tx[2].accepted
    /\ store.version = 2

\* there the page stored holds no certificate, and the history holds one
RowLostOnLegacyPage ==
    InterleavedOnLegacyPage =>
      /\ tx[1].returned = [success |-> TRUE]
      /\ DataRows(store.body) = <<>>
      /\ Len(history) >= 1


-----------------------------------------------------------------------------
(* Claims on the credential store *)

\* the last call on the credential store and the call before it
PreviousCall == credLog[1]
LastCall     == credLog[2]

\* C27: a getCredentials that follows a saveCredentials(u, t) which returned
\* without error returns u and t, whichever store took the write and whatever the
\* other store holds; after a clearCredentials, hasCredentials returns false and
\* getCredentials returns null
C27_ReadYourWrite ==
    Len(credLog) = 2 =>
      /\ (PreviousCall.op = "save" /\ PreviousCall.ok /\ LastCall.op = "get") =>
           LastCall.credentials = PreviousCall.credentials
      /\ (PreviousCall.op = "clear" /\ LastCall.op = "has") => ~LastCall.ok
      /\ (PreviousCall.op = "clear" /\ LastCall.op = "get") => LastCall.credentials = Null

\* the keychain holds the credentials of an earlier save, the last save went to
\* the settings table, and the getCredentials that followed returned what the
\* keychain holds
ShadowedSave ==
    /\ Len(credLog) = 2
    /\ PreviousCall.op = "save" /\ PreviousCall.ok
    /\ LastCall.op = "get"
    /\ storageMethod = "keychain"
    /\ keychain # Null /\ fallback # Null
    /\ JSONParse(decrypt(fallback)) = PreviousCall.credentials
    /\ JSONParse(keychain) # PreviousCall.credentials
    /\ LastCall.credentials = JSONParse(keychain)

-----------------------------------------------------------------------------
(* Claims on the cached client *)

\* C28: a request made through getClient uses a client that carries the
\* credentials stored at the time of the request: the cached client is not used
\* again once the stored username or token is another
C28_FreshClient ==
    (request # Null /\ request.client # Null) =>
      request.client.credentials = request.credentials

\* the token in the keychain was replaced under the same username after the
\* client was built; the settings table never held credentials
TokenReplaced ==
    /\ request # Null /\ request.client # Null
    /\ fallback = Null /\ keychain # Null
    /\ JSONParse(keychain) = request.credentials
    /\ request.client.credentials.username = request.credentials.username
    /\ request.client.credentials.token # request.credentials.token


-----------------------------------------------------------------------------
(* Claims on the templates table *)

\* C29: whatever calls were made on the templates table, at most one template is
\* the default; and after a call that made a template the default, that template
\* is the only default
C29_AtMostOneDefault ==
    /\ Cardinality(DefaultIds(templates)) <= 1
    /\ tplCall.madeDefault => DefaultIds(templates) = {tplCall.id}

\* a template was created as the default while another template was the default
C29_Witness ==
    /\ tplCall.op = "create" /\ tplCall.madeDefault
    /\ tplCall.before # {} /\ tplCall.before # {tplCall.id}
    /\ Cardinality(templates) = 2
    /\ DefaultIds(templates) = {tplCall.id}

\* C30: a setDefaultTemplate(id) with an id no template has returns false and
\* leaves the default where it was
C30_FailureKeepsDefault ==
    (tplCall.op = "setDefault" /\ ~tplCall.ok) =>
      DefaultIds(templates) = tplCall.before

\* setDefaultTemplate was called with an unknown id while a template was the default
UnknownIdWithDefault ==
    /\ tplCall.op = "setDefault" /\ ~tplCall.ok
    /\ tplCall.before # {}
    /\ DefaultIds(templates) = {}

=============================================================================
